---- MODULE Spec2Model ----
(***************************************************************************)
(* A model of cassetta's loadable-module engine (cassetta/io/modules.py):  *)
(* argument capture (save_args), the recursive serializer and              *)
(* deserializer, make_loadable, the three container variants and the       *)
(* loadable optimizer.                                                     *)
(*                                                                         *)
(* Python values are tagged records (field k), Python classes are records  *)
(* that carry their bases, and a raising call is a result with a non-empty *)
(* err field.                                                              *)
(***************************************************************************)
EXTENDS Integers, Sequences, FiniteSets, TLC

VARIABLES
    pc,       \* phase of the scenario: "build", "saved", "loaded", "reloaded"
    G,        \* the live object under construction / mutation
    last,     \* the last constructor or container call: what was asked, what happened
    rec,      \* the record handed to load (G.serialize(), possibly edited by hand)
    edit,     \* which hand edit was applied to rec ("" when none)
    hint,     \* the class load is called on (LoadableMixin when no hint)
    out,      \* result of load(rec)
    out2,     \* result of load(out.val.serialize())
    warns,    \* the warnings emitted so far
    heap,     \* the objects of the aliasing scenario, by address
    node,     \* the address of the node built there, 0 before it is built
    recs,     \* the records serialize returned there, oldest first
    hop,      \* the operation done last there
    call,     \* the call of a utility function: its name and its arguments
    ret,      \* what that call returned or raised, Pending before it is made
    arg,      \* the caller's object x of that call, as it is after the call
    trainer,  \* the trainer: its training_state, its eval_loader, its checkpoint files
    at,       \* where the loop of train() stands
    calls,    \* the calls of eval_epoch so far: the loss of each and what it saved
    given,    \* the in-memory state that LoadableTrainer.load is given
    loaded    \* what the loads of that state returned or raised, oldest first

(* the variables of the aliasing scenario *)
aside == <<heap, node, recs, hop>>

(* the variables of the calls of the utility functions *)
asked == <<call, ret, arg>>

(* the variables of the trainer *)
training == <<trainer, at, calls, given, loaded>>

vars == <<pc, G, last, rec, edit, hint, out, out2, warns, aside, asked, training>>

----------------------------------------------------------------------------
(* Bounds of the model *)

MaxArgs == 2
MaxChildren == 3
MaxDepth == 2

----------------------------------------------------------------------------
(* Python values *)

None == [k |-> "none"]
Prim(n) == [k |-> "prim", v |-> n]
Str(s) == [k |-> "str", v |-> s]
List(s) == [k |-> "list", items |-> s]
Tuple(s) == [k |-> "tuple", items |-> s]
Dict(s) == [k |-> "dict", items |-> s]
Tensor(n) == [k |-> "tensor", v |-> n]
Generator(s) == [k |-> "generator", items |-> s]

InSeq(x, s) == \E i \in 1..Len(s) : s[i] = x

(* a dict keeps its insertion order: items is a sequence of key/value pairs *)
Item(key, val) == [key |-> key, val |-> val]
HasKey(items, key) == \E i \in 1..Len(items) : items[i].key = key
GetKey(items, key) == items[CHOOSE i \in 1..Len(items) : items[i].key = key].val
PutKey(items, key, val) ==
    IF HasKey(items, key)
    THEN [i \in 1..Len(items) |->
            IF items[i].key = key THEN Item(key, val) ELSE items[i]]
    ELSE Append(items, Item(key, val))
DelKey(items, key) == SelectSeq(items, LAMBDA it : it.key # key)
Keys(items) == {items[i].key : i \in 1..Len(items)}
Values(items) == [i \in 1..Len(items) |-> items[i].val]

(* an event of a call's log *)
Ev(e, a, b) == [ev |-> e, a |-> a, b |-> b]

(* results of calls: err = "" when the call returned, else the exception    *)
(* type; a method that raises leaves in val the object as it then is        *)
Ok(v) == [err |-> "", val |-> v, log |-> <<>>]
OkLog(v, l) == [err |-> "", val |-> v, log |-> l]
Raise(e, l) == [err |-> e, val |-> None, log |-> l]
RaiseIn(self, r) == [err |-> r.err, val |-> self, log |-> r.log]

(* sequencing of calls: an exception of r ends the sequence, F is what runs *)
(* after r returned; the logs follow one another                            *)
Then(r, F(_)) ==
    IF r.err # "" THEN r ELSE [F(r.val) EXCEPT !.log = r.log \o @]

----------------------------------------------------------------------------
(* Python classes.  init names the __init__ the class body defines ("" when *)
(* it defines none); defs are the other methods the class body defines.    *)

Class(name, module, bases, init, defs) ==
    [k |-> "class", name |-> name, module |-> module, qualname |-> name,
     bases |-> bases, init |-> init, defs |-> defs]

object == Class("object", "builtins", <<>>, "object", {})
type == Class("type", "builtins", <<object>>, "", {})
nn_Module == Class("Module", "torch.nn", <<object>>, "module", {})
nn_Sequential == Class("Sequential", "torch.nn", <<nn_Module>>, "nn_seq", {})
nn_ModuleList == Class("ModuleList", "torch.nn", <<nn_Module>>, "nn_mlist", {})
nn_ModuleDict == Class("ModuleDict", "torch.nn", <<nn_Module>>, "nn_mdict", {})
nn_Linear == Class("Linear", "torch.nn", <<nn_Module>>, "", {})
optim_Optimizer == Class("Optimizer", "torch.optim", <<object>>, "optimizer", {})

LoadableMixin ==
    Class("LoadableMixin", "cassetta.io.modules", <<object>>, "", {"serialize"})

DynamicLoadableMixin ==
    Class("DynamicLoadableMixin", "cassetta.io.modules", <<LoadableMixin>>, "", {})

LoadableSequential ==
    Class("LoadableSequential", "cassetta.io.modules",
          <<LoadableMixin, nn_Sequential>>, "seq",
          {"serialize", "append", "extend", "insert"})

LoadableModuleList ==
    Class("LoadableModuleList", "cassetta.io.modules",
          <<LoadableMixin, nn_ModuleList>>, "mlist",
          {"serialize", "append", "extend", "insert"})

LoadableModuleDict ==
    Class("LoadableModuleDict", "cassetta.io.modules",
          <<LoadableMixin, nn_ModuleDict>>, "mdict", {"serialize", "__setitem__"})

LoadableOptimizer ==
    Class("LoadableOptimizer", "cassetta.io.modules",
          <<LoadableMixin, optim_Optimizer>>, "", {"serialize"})

(* user classes in the style of the save_args docstring; every __init__ is *)
(* decorated with @LoadableMixin.save_args and takes any arguments:        *)
(*   NodeA(LoadableMixin, nn.Module): calls super().__init__ with nothing  *)
(*   NodeB(NodeA): calls super().__init__ with args[1:] and no keywords    *)
(*   NodeC(NodeB): calls super().__init__ with args[1:] and the keywords   *)
NodeA == Class("NodeA", "user.nodes", <<LoadableMixin, nn_Module>>, "user_last", {})
NodeB == Class("NodeB", "user.nodes", <<NodeA>>, "user_tail", {})
NodeC == Class("NodeC", "user.nodes", <<NodeB>>, "user_tail_kw", {})

(* user classes whose __init__ is not decorated:                            *)
(*   NodeP1(LoadableMixin, nn.Module) with __init__(self, x)                *)
(*   NodeP2(LoadableMixin, nn.Module) with __init__(self, x, y)             *)
(* both call super().__init__ with nothing                                  *)
NodeP1 == Class("NodeP1", "user.nodes", <<LoadableMixin, nn_Module>>, "plain1", {})
NodeP2 == Class("NodeP2", "user.nodes", <<LoadableMixin, nn_Module>>, "plain2", {})

(* LoadableSGD(LoadableOptimizer), __init__(self, params, lr) decorated    *)
(* with save_args, calls super().__init__ with params and the defaults     *)
LoadableSGD ==
    Class("LoadableSGD", "user.nodes", <<LoadableOptimizer>>, "user_opt", {})

(* C3 linearisation of a class's bases: type.__mro__ *)
(* the first head of the sequences that is in the tail of none of them *)
C3Good(ne, i) == \A j \in 1..Len(ne) : ~InSeq(ne[i][1], Tail(ne[j]))
C3Head(ne) ==
    ne[CHOOSE i \in 1..Len(ne) :
           C3Good(ne, i) /\ \A j \in 1..(i - 1) : ~C3Good(ne, j)][1]
C3Drop(ne, h) ==
    [i \in 1..Len(ne) |-> IF ne[i][1] = h THEN Tail(ne[i]) ELSE ne[i]]
NonEmpty(seqs) == SelectSeq(seqs, LAMBDA s : s # <<>>)

RECURSIVE C3Merge(_)
C3Next(ne) ==
    IF ne = <<>> THEN <<>> ELSE <<C3Head(ne)>> \o C3Merge(C3Drop(ne, C3Head(ne)))
C3Merge(seqs) == C3Next(NonEmpty(seqs))

RECURSIVE Mro(_)
Mro(c) ==
    <<c>> \o C3Merge([i \in 1..Len(c.bases) |-> Mro(c.bases[i])] \o <<c.bases>>)

issubclass(c, base) == InSeq(base, Mro(c))

(* type(x): the class of an object; the class of a class is type *)
TypeOf(x) ==
    IF x.k = "object" THEN x.cls
    ELSE IF x.k = "class" THEN type
    ELSE object

isinstance(x, c) == issubclass(TypeOf(x), c)

(* the class whose body defines method m for instances of c (attribute lookup) *)
FirstDefiner(mro, m) ==
    mro[CHOOSE i \in 1..Len(mro) :
            m \in mro[i].defs /\ \A j \in 1..(i - 1) : m \notin mro[j].defs]
Definer(c, m) == FirstDefiner(Mro(c), m)

----------------------------------------------------------------------------
(* Live objects.  attrs holds the instance attributes the engine sets      *)
(* (_args, _kwargs), state is what state_dict() returns, mods is the       *)
(* ordered _modules mapping of a container.                                *)

StateDict(n) == [k |-> "state_dict", v |-> n]

NewObject(klass) ==
    [k |-> "object", cls |-> klass, attrs |-> <<>>, state |-> StateDict(0),
     mods |-> <<>>]

hasattr(self, name) == HasKey(self.attrs, name)
getattr(self, name, default) ==
    IF HasKey(self.attrs, name) THEN GetKey(self.attrs, name) ELSE default
setattr(self, name, val) == [self EXCEPT !.attrs = PutKey(@, name, val)]

__version__ == "1.0"

(* the common head of every record *)
Record(klass, args, kwargs) ==
    <<Item("cassetta.Loadable", Str(__version__)),
      Item("module", Str(klass.module)),
      Item("qualname", Str(klass.qualname)),
      Item("args", args),
      Item("kwargs", kwargs)>>

(* LoadableMixin.serialize *)
(* lines 259-261: the class whose name a record carries *)
TagClass(klass) ==
    IF InSeq(DynamicLoadableMixin, klass.bases)
    THEN klass.bases[Len(klass.bases)]
    ELSE klass

LoadableMixin_serialize(self) ==
    Dict(Record(TagClass(TypeOf(self)),
                getattr(self, "_args", Tuple(<<>>)),
                getattr(self, "_kwargs", Dict(<<>>)))
         \o <<Item("state", self.state)>>)

(* LoadableOptimizer.serialize *)
(* dict.get(key, default) *)
DictGet(items, key, default) ==
    IF HasKey(items, key) THEN GetKey(items, key) ELSE default

(* lines 557-558 *)
RemoveParams(args) ==
    IF args.items # <<>> /\ args.items[1].k = "tensor"
    THEN List(<<List(<<>>)>> \o Tail(args.items))
    ELSE args

(* lines 552-561, on the record that super().serialize() returned *)
ReplaceArgs(serialized_state, state) ==
    PutKey(PutKey(PutKey(serialized_state, "state", state),
                  "args", RemoveParams(DictGet(serialized_state, "args", Tuple(<<>>)))),
           "kwargs", DictGet(serialized_state, "kwargs", Dict(<<>>)))

LoadableOptimizer_serialize(self) ==
    Dict(ReplaceArgs(LoadableMixin_serialize(self).items, self.state))

RECURSIVE serialize(_)

(* LoadableSequential.serialize *)
LoadableSequential_serialize(self) ==
    Dict(Record(TypeOf(self),
                List([i \in 1..Len(self.mods) |-> serialize(self.mods[i].val)]),
                getattr(self, "_kwargs", Dict(<<>>))))

(* a serialize that lists the children last to first *)
LoadableModuleList_serialize_reversed(self) ==
    Dict(Record(TypeOf(self),
                List(<<List([i \in 1..Len(self.mods) |->
                               serialize(self.mods[Len(self.mods) + 1 - i].val)])>>),
                getattr(self, "_kwargs", Dict(<<>>))))

(* LoadableModuleList.serialize *)
LoadableModuleList_serialize(self) ==
    Dict(Record(TypeOf(self),
                List(<<List([i \in 1..Len(self.mods) |->
                               serialize(self.mods[i].val)])>>),
                getattr(self, "_kwargs", Dict(<<>>))))

(* a serialize that files the children under their positions *)
LoadableModuleDict_serialize_positions(self) ==
    Dict(Record(TypeOf(self),
                List(<<Dict([i \in 1..Len(self.mods) |->
                               Item(ToString(i - 1),
                                    serialize(self.mods[i].val))])>>),
                getattr(self, "_kwargs", Dict(<<>>))))

(* LoadableModuleDict.serialize *)
LoadableModuleDict_serialize(self) ==
    Dict(Record(TypeOf(self),
                List(<<Dict([i \in 1..Len(self.mods) |->
                               Item(self.mods[i].key,
                                    serialize(self.mods[i].val))])>>),
                getattr(self, "_kwargs", Dict(<<>>))))

(* self.serialize(): the serialize of the first class of the MRO that has one *)
SerializeOf(d, self) ==
    CASE d = LoadableSequential -> LoadableSequential_serialize(self)
      [] d = LoadableModuleList -> LoadableModuleList_serialize(self)
      [] d = LoadableModuleDict -> LoadableModuleDict_serialize(self)
      [] d = LoadableOptimizer -> LoadableOptimizer_serialize(self)
      [] OTHER -> LoadableMixin_serialize(self)
serialize(self) == SerializeOf(Definer(TypeOf(self), "serialize"), self)

(* the first raising result of a sequence of results, or none *)
FirstErr(rs) ==
    IF \E i \in 1..Len(rs) : rs[i].err # ""
    THEN rs[CHOOSE i \in 1..Len(rs) :
                rs[i].err # "" /\ \A j \in 1..(i - 1) : rs[j].err = ""]
    ELSE Ok(None)

(* the values of a sequence of results, or its first exception *)
Collect(rs) ==
    IF FirstErr(rs).err # "" THEN FirstErr(rs)
    ELSE Ok([i \in 1..Len(rs) |-> rs[i].val])

(* a serializer that looks at obj itself and not into it *)
_nested_serialize_shallow(obj) ==
    IF isinstance(obj, nn_Module)
    THEN IF ~isinstance(obj, LoadableMixin)
         THEN Raise("TypeError", <<Ev("TypeError", Str(TypeOf(obj).name), None)>>)
         ELSE Ok(serialize(obj))
    ELSE Ok(obj)

(* LoadableMixin._nested_serialize *)
RECURSIVE _nested_serialize(_)
_nested_serialize(obj) ==
    IF isinstance(obj, nn_Module)
    THEN IF ~isinstance(obj, LoadableMixin)
         THEN Raise("TypeError", <<Ev("TypeError", Str(TypeOf(obj).name), None)>>)
         ELSE Ok(serialize(obj))
    ELSE IF obj.k \in {"list", "tuple"}
    THEN Then(Collect([i \in 1..Len(obj.items) |->
                         _nested_serialize(obj.items[i])]),
              LAMBDA vs : Ok([obj EXCEPT !.items = vs]))
    ELSE IF obj.k = "dict"
    THEN Then(Collect([i \in 1..Len(obj.items) |->
                         _nested_serialize(obj.items[i].val)]),
              LAMBDA vs : Ok([obj EXCEPT !.items =
                                [i \in 1..Len(vs) |-> Item(obj.items[i].key, vs[i])]]))
    ELSE Ok(obj)

(* a wrapper that captures on every call of the chain *)
save_args_wrapper_every_call(self, args, kwargs) ==
    Then(_nested_serialize(Tuple(args)), LAMBDA a :
    Then(_nested_serialize(Dict(kwargs)), LAMBDA kw :
    Ok(setattr(setattr(self, "_args", a), "_kwargs", kw))))

(* the wrapper that LoadableMixin.save_args puts around an __init__, up to  *)
(* its call of the wrapped init; args is the tuple of positional arguments  *)
(* and kwargs the dict of keyword arguments                                 *)
save_args_wrapper(self, args, kwargs) ==
    IF ~hasattr(self, "_args")
    THEN Then(_nested_serialize(Tuple(args)), LAMBDA a :
         Then(_nested_serialize(Dict(kwargs)), LAMBDA kw :
         Ok(setattr(setattr(self, "_args", a), "_kwargs", kw))))
    ELSE Ok(self)

----------------------------------------------------------------------------
(* Container operations *)

(* validate_loadable_module *)
validate_loadable_module(module) ==
    IF ~isinstance(module, LoadableMixin)
    THEN Raise("TypeError", <<Ev("TypeError", Str(TypeOf(module).name), None)>>)
    ELSE Ok(None)

(* validate_loadable_modules: modules is the sequence the iterable yields *)
validate_loadable_modules(modules) ==
    FirstErr([i \in 1..Len(modules) |-> validate_loadable_module(modules[i])])

(* what iterating an iterable yields, and the iterable after a full pass:   *)
(* a generator yields its items once                                        *)
Iter(it) == it.items
Exhaust(it) == IF it.k = "generator" THEN Generator(<<>>) ELSE it

(* the keys nn.Sequential and nn.ModuleList give their children: "0", "1", ... *)
Rekey(ms) == [i \in 1..Len(ms) |-> Item(ToString(i - 1), ms[i])]

(* nn.Module.add_module at the end of an ordered container / under a key *)
add_module(self, key, module) ==
    IF ~isinstance(module, nn_Module)
    THEN RaiseIn(self, Raise("TypeError",
                             <<Ev("TypeError", Str(TypeOf(module).name), None)>>))
    ELSE Ok([self EXCEPT !.mods = PutKey(@, key, module)])

(* nn.Sequential.insert / nn.ModuleList.insert for 0 <= index <= len(self) *)
nn_insert(self, index, module) ==
    IF ~isinstance(module, nn_Module)
    THEN RaiseIn(self, Raise("TypeError",
                             <<Ev("TypeError", Str(TypeOf(module).name), None)>>))
    ELSE LET ms == Values(self.mods)
         IN  Ok([self EXCEPT !.mods =
                    Rekey(SubSeq(ms, 1, index) \o <<module>>
                          \o SubSeq(ms, index + 1, Len(ms)))])

(* a container method: validation first, then the inherited method *)
Guarded(self, v, F(_)) == IF v.err # "" THEN RaiseIn(self, v) ELSE F(self)

(* LoadableSequential.append *)
LoadableSequential_append(self, module) ==
    Guarded(self, validate_loadable_module(module),
            LAMBDA s : add_module(s, ToString(Len(s.mods)), module))

(* LoadableSequential.insert *)
LoadableSequential_insert(self, index, module) ==
    Guarded(self, validate_loadable_module(module),
            LAMBDA s : nn_insert(s, index, module))

(* nn.Sequential.extend: self.append(layer) for each layer it is given *)
RECURSIVE nn_Sequential_extend(_, _)
nn_Sequential_extend(self, layers) ==
    IF layers = <<>> THEN Ok(self)
    ELSE Then(LoadableSequential_append(self, Head(layers)),
              LAMBDA s : nn_Sequential_extend(s, Tail(layers)))

(* LoadableSequential.extend *)
LoadableSequential_extend(self, modules) ==
    Guarded(self, validate_loadable_modules(Iter(modules)),
            LAMBDA s : nn_Sequential_extend(s, Iter(Exhaust(modules))))

(* LoadableModuleList.append *)
LoadableModuleList_append(self, module) ==
    Guarded(self, validate_loadable_module(module),
            LAMBDA s : add_module(s, ToString(Len(s.mods)), module))

(* LoadableModuleList.insert *)
LoadableModuleList_insert(self, index, module) ==
    Guarded(self, validate_loadable_module(module),
            LAMBDA s : nn_insert(s, index, module))

(* nn.ModuleList.extend: add_module(str(offset + i), module) for each module *)
RECURSIVE nn_ModuleList_extend(_, _)
nn_ModuleList_extend(self, modules) ==
    IF modules = <<>> THEN Ok(self)
    ELSE Then(add_module(self, ToString(Len(self.mods)), Head(modules)),
              LAMBDA s : nn_ModuleList_extend(s, Tail(modules)))

(* an extend that does not validate what it is given *)
LoadableModuleList_extend_unchecked(self, modules) ==
    nn_ModuleList_extend(self, Iter(modules))

(* LoadableModuleList.extend *)
LoadableModuleList_extend(self, modules) ==
    Guarded(self, validate_loadable_modules(Iter(modules)),
            LAMBDA s : nn_ModuleList_extend(s, Iter(Exhaust(modules))))

(* LoadableModuleDict.__setitem__ *)
LoadableModuleDict___setitem__(self, key, module) ==
    Guarded(self, validate_loadable_module(module),
            LAMBDA s : add_module(s, key, module))

(* nn.ModuleDict.update: self[key] = module for each pair of the mapping *)
RECURSIVE nn_ModuleDict_update(_, _)
nn_ModuleDict_update(self, items) ==
    IF items = <<>> THEN Ok(self)
    ELSE Then(LoadableModuleDict___setitem__(self, Head(items).key, Head(items).val),
              LAMBDA s : nn_ModuleDict_update(s, Tail(items)))

----------------------------------------------------------------------------
(* Constructors.  klass(args, kwargs) runs the first __init__ of the MRO;    *)
(* super().__init__ runs the next one.  Each __init__ is given in two       *)
(* parts: what it does up to its call of super().__init__ (the result is    *)
(* that call: self and the arguments passed on), and what it does after     *)
(* that call returned.                                                      *)

SuperCall(self, args, kwargs) == Ok([self |-> self, args |-> args, kwargs |-> kwargs])

(* binding of a call to the signature (self, modules=None) *)
BindModules(args, kwargs) ==
    IF Len(args) > 1 \/ Keys(kwargs) \ {"modules"} # {}
       \/ (Len(args) = 1 /\ HasKey(kwargs, "modules"))
    THEN Raise("TypeError", <<>>)
    ELSE IF Len(args) = 1 THEN Ok(args[1])
    ELSE IF HasKey(kwargs, "modules") THEN Ok(GetKey(kwargs, "modules"))
    ELSE Ok(None)

(* line 245: the wrapper calls the __init__ it wraps *)
WrappedInit(name, r) == [r EXCEPT !.log = <<Ev("init", Str(name), None)>> \o @]

(* DynamicModule.__init__ of make_loadable, under its save_args wrapper *)
DynamicModule___init__(self, args, kwargs) ==
    Then(save_args_wrapper(self, args, kwargs),
         LAMBDA s : WrappedInit("dyn", SuperCall(s, args, kwargs)))

(* the decorated __init__ of the user classes NodeA, NodeB, NodeC *)
User___init__(kind, self, args, kwargs) ==
    Then(save_args_wrapper(self, args, kwargs),
         LAMBDA s : WrappedInit(kind,
                        SuperCall(s,
                                  IF kind = "user_last" \/ args = <<>>
                                  THEN <<>> ELSE Tail(args),
                                  IF kind = "user_tail_kw" THEN kwargs ELSE <<>>)))

(* the undecorated __init__ of NodeP1 and NodeP2; none of the keywords the  *)
(* calls use is a parameter of theirs                                       *)
Plain___init__(kind, self, args, kwargs) ==
    IF kwargs # <<>> \/ Len(args) # (IF kind = "plain1" THEN 1 ELSE 2)
    THEN Raise("TypeError", <<>>)
    ELSE SuperCall(self, <<>>, <<>>)

(* the decorated __init__(self, params, lr) of the user optimizer *)
UserOptimizer___init__(self, args, kwargs) ==
    Then(save_args_wrapper(self, args, kwargs),
         LAMBDA s : WrappedInit("user_opt",
                        IF args = <<>> THEN Raise("TypeError", <<>>)
                        ELSE SuperCall(s, <<args[1], Dict(<<>>)>>, <<>>)))

(* torch.optim.Optimizer.__init__(params, defaults); a generator given as   *)
(* params is used up, also where the capture record refers to it            *)
Optimizer___init__(self, args) ==
    LET params == args[1]
        group == IF params.k = "tensor" THEN <<params>>
                 ELSE IF params.k \in {"list", "tuple", "generator"}
                 THEN params.items
                 ELSE <<>>
        captured == getattr(self, "_args", Tuple(<<>>))
        self1 == IF params.k = "generator" /\ captured.items # <<>>
                    /\ captured.items[1] = params
                 THEN setattr(self, "_args",
                              [captured EXCEPT !.items[1] = Exhaust(params)])
                 ELSE self
    IN  IF params.k \notin {"tensor", "list", "tuple", "generator"}
        THEN Raise("TypeError", <<>>)
        ELSE IF group = <<>> THEN Raise("ValueError", <<>>)
        ELSE SuperCall(setattr(self1, "param_groups", List(group)), <<>>, <<>>)

(* nn.Sequential.__init__ *)
nn_Sequential___init__(self, args) ==
    Then(Collect([i \in 1..Len(args) |-> add_module(self, ToString(i - 1), args[i])]),
         LAMBDA vs : SuperCall([self EXCEPT !.mods = Rekey(args)], <<>>, <<>>))

(* LoadableSequential.__init__, line 461 *)
LoadableSequential___init__(self, args, kwargs) ==
    IF kwargs # <<>> THEN Raise("TypeError", <<>>)
    ELSE SuperCall(self, args, <<>>)

(* nn.ModuleList.__init__: self += modules, which is self.extend(modules) *)
nn_ModuleList___init__(self, modules) ==
    Then(IF modules = None THEN Ok(self)
         ELSE IF modules.k \notin {"list", "tuple", "generator"}
         THEN Raise("TypeError", <<>>)
         ELSE LoadableModuleList_extend(self, modules),
         LAMBDA s : SuperCall(s, <<>>, <<>>))

(* LoadableModuleList.__init__, line 490, and LoadableModuleDict.__init__,  *)
(* line 519                                                                 *)
LoadableModuleList___init__(self, args, kwargs) ==
    Then(BindModules(args, kwargs), LAMBDA modules : SuperCall(self, <<modules>>, <<>>))

(* nn.ModuleDict.__init__: self.update(modules) *)
nn_ModuleDict___init__(self, modules) ==
    Then(IF modules = None THEN Ok(self)
         ELSE IF modules.k # "dict" THEN Raise("TypeError", <<>>)
         ELSE nn_ModuleDict_update(self, modules.items),
         LAMBDA s : SuperCall(s, <<>>, <<>>))

(* an __init__ up to its call of super().__init__ *)
InitHead(c, self, args, kwargs) ==
    CASE c.init = "" -> SuperCall(self, args, kwargs)
      [] c.init = "dyn" -> DynamicModule___init__(self, args, kwargs)
      [] c.init \in {"user_last", "user_tail", "user_tail_kw"} ->
             User___init__(c.init, self, args, kwargs)
      [] c.init \in {"plain1", "plain2"} -> Plain___init__(c.init, self, args, kwargs)
      [] c.init = "user_opt" -> UserOptimizer___init__(self, args, kwargs)
      [] c.init = "seq" -> LoadableSequential___init__(self, args, kwargs)
      [] c.init \in {"mlist", "mdict"} -> LoadableModuleList___init__(self, args, kwargs)
      [] c.init = "nn_seq" -> nn_Sequential___init__(self, args)
      [] c.init = "nn_mlist" -> nn_ModuleList___init__(self, args[1])
      [] c.init = "nn_mdict" -> nn_ModuleDict___init__(self, args[1])
      [] c.init = "optimizer" -> Optimizer___init__(self, args)
      [] OTHER -> IF args # <<>> \/ kwargs # <<>>
                  THEN Raise("TypeError", <<>>)
                  ELSE SuperCall(self, <<>>, <<>>)

(* an __init__ after super().__init__ returned: lines 462, 491, 521-523 *)
InitTail(c, self) ==
    CASE c.init \in {"seq", "mlist"} ->
             Then(validate_loadable_modules(Values(self.mods)), LAMBDA n : Ok(self))
      [] c.init = "mdict" ->
             IF \E i \in 1..Len(self.mods) :
                    ~isinstance(self.mods[i].val, LoadableMixin)
             THEN Raise("TypeError", <<>>)
             ELSE Ok(self)
      [] OTHER -> Ok(self)

RECURSIVE RunInit(_, _, _, _)
RunInit(self, chain, args, kwargs) ==
    IF chain = <<>> THEN Ok(self)
    ELSE Then(InitHead(Head(chain), self, args, kwargs), LAMBDA up :
         Then(RunInit(up.self, Tail(chain), up.args, up.kwargs),
              LAMBDA s : InitTail(Head(chain), s)))

(* klass(args, kwargs) *)
Construct(klass, args, kwargs) == RunInit(NewObject(klass), Mro(klass), args, kwargs)

----------------------------------------------------------------------------
(* save *)

(* len(signature(self.__init__).parameters): the parameters of the bound    *)
(* __init__, which do not include self.  A save_args wrapper has the        *)
(* signature (self, *args, **kwargs); nn.Module and object take *args and   *)
(* **kwargs, nn.Sequential *args, nn.ModuleList and nn.ModuleDict modules,  *)
(* Optimizer params and defaults.                                           *)
NumParams(kind) ==
    CASE kind \in {"seq", "mlist", "mdict", "nn_seq", "nn_mlist", "nn_mdict",
                   "plain1"} -> 1
      [] OTHER -> 2

(* the class of the MRO whose __init__ an instance of c has *)
InitDefiner(mro) == mro[CHOOSE i \in 1..Len(mro) :
                          mro[i].init # "" /\ \A j \in 1..(i - 1) : mro[j].init = ""]

(* lines 280-286 of save: the warnings it emits *)
save_warnings(self) ==
    IF ~hasattr(self, "_args") /\ NumParams(InitDefiner(Mro(TypeOf(self))).init) > 1
    THEN <<Ev("warn", Str(TypeOf(self).name), None)>>
    ELSE <<>>

----------------------------------------------------------------------------
(* Deserialization *)

(* make_loadable *)
make_loadable(klass) ==
    Class("Loadable" \o klass.name, "cassetta.io.modules",
          <<DynamicLoadableMixin, klass>>, "dyn", {})

(* the classes a (module, qualname) pair can be imported as *)
Importable ==
    {NodeA, NodeB, NodeC, NodeP1, NodeP2, LoadableSGD, LoadableMixin, LoadableSequential,
     LoadableModuleList, LoadableModuleDict, LoadableOptimizer, nn_Linear}

(* cassetta.io.utils.import_qualname *)
import_qualname(module, qualname) ==
    LET found == {c \in Importable : Str(c.module) = module /\ Str(c.qualname) = qualname}
    IN  IF found = {} THEN Raise("Exception", <<>>)
        ELSE Ok(CHOOSE c \in found : TRUE)

(* obj.load_state_dict(state) *)
load_state_dict(obj, state) == [obj EXCEPT !.state = state]

(* state[key], which raises KeyError when the record has no such field *)
Field(state, key) ==
    IF HasKey(state, key) THEN Ok(GetKey(state, key))
    ELSE Raise("KeyError", <<Ev("KeyError", Str(key), None)>>)

(* a handler that lets the exception of the import through *)
Handled_reraise(state, tried) ==
    IF tried.err = ""
    THEN OkLog(tried.val, <<Ev("import", GetKey(state, "qualname"),
                               GetKey(state, "module"))>>)
    ELSE tried

(* lines 187-198: import_qualname(state["module"], state["qualname"]), and  *)
(* the handler of whatever exception that raised                            *)
Handled(state, tried) ==
    IF tried.err = ""
    THEN OkLog(tried.val, <<Ev("import", GetKey(state, "qualname"),
                               GetKey(state, "module"))>>)
    ELSE Then(Field(state, "qualname"), LAMBDA q :
         Then(Field(state, "module"), LAMBDA m :
         Raise("ImportError", <<Ev("ImportError", q, m)>>)))

ImportClass(state) ==
    Handled(state,
            Then(Field(state, "module"), LAMBDA m :
            Then(Field(state, "qualname"), LAMBDA q : import_qualname(m, q))))

(* lines 186-198: the class of a tagged record *)
ResolveClass(state, klass) ==
    IF klass = None THEN ImportClass(state) ELSE Ok(klass)

(* lines 199-200 *)
WrapClass(klass) ==
    IF ~isinstance(klass, LoadableMixin) THEN make_loadable(klass) ELSE klass

(* line 203: the call of klass on the rebuilt arguments *)
Instantiate(klass, args, kwargs) ==
    IF args.k \in {"list", "tuple"} /\ kwargs.k = "dict"
    THEN [Construct(klass, args.items, kwargs.items) EXCEPT
             !.log = <<Ev("call", Str(klass.qualname), None)>>]
    ELSE Raise("TypeError", <<>>)

(* a load that assigns a state to every instance, of a record with none too *)
LoadState_always(state, klass, obj) ==
    OkLog(load_state_dict(obj, DictGet(state, "state", obj.state)),
          <<Ev("load_state_dict", Str(klass.qualname), None)>>)

(* lines 207-208 *)
LoadState(state, klass, obj) ==
    IF HasKey(state, "state")
    THEN OkLog(load_state_dict(obj, GetKey(state, "state")),
               <<Ev("load_state_dict", Str(klass.qualname), None)>>)
    ELSE Ok(obj)

RECURSIVE _nested_unserialize(_, _)

(* map(_nested_unserialize, ...) over a sequence of values, left to right,   *)
(* stopping at the first exception                                          *)
RECURSIVE UnserializeAll(_)
UnserializeAll(vals) ==
    IF vals = <<>> THEN Ok(<<>>)
    ELSE Then(_nested_unserialize(Head(vals), None), LAMBDA v :
         Then(UnserializeAll(Tail(vals)), LAMBDA vs : Ok(<<v>> \o vs)))

(* lines 184-209: a tagged record *)
UnserializeRecord(state, klass0) ==
    Then(ResolveClass(state, klass0), LAMBDA k0 :
    Then(Then(Field(state, "args"), LAMBDA a : _nested_unserialize(a, None)),
         LAMBDA args :
    Then(Then(Field(state, "kwargs"), LAMBDA kw : _nested_unserialize(kw, None)),
         LAMBDA kwargs :
    Then(Instantiate(WrapClass(k0), args, kwargs),
         LAMBDA obj : LoadState(state, WrapClass(k0), obj)))))

(* LoadableMixin._nested_unserialize *)
_nested_unserialize(obj, klass) ==
    IF obj.k = "dict"
    THEN IF HasKey(obj.items, "cassetta.Loadable")
         THEN UnserializeRecord(obj.items, klass)
         ELSE Then(UnserializeAll(Values(obj.items)),
                   LAMBDA vs : Ok(Dict([i \in 1..Len(vs) |->
                                          Item(obj.items[i].key, vs[i])])))
    ELSE IF obj.k \in {"list", "tuple"}
    THEN Then(UnserializeAll(obj.items),
              LAMBDA vs : Ok([obj EXCEPT !.items = vs]))
    ELSE Ok(obj)

(* a load that takes no hint from the class it is called on *)
load_unhinted(cls, loadable_state) == _nested_unserialize(loadable_state, None)

(* LoadableMixin.load, called on class cls with an in-memory record *)
load(cls, loadable_state) ==
    _nested_unserialize(loadable_state, IF cls # LoadableMixin THEN cls ELSE None)

(* load_module *)
load_module(model_state) == load(LoadableMixin, model_state)

----------------------------------------------------------------------------
(* The serializer on objects that are shared: a value is a primitive or the *)
(* reference Ref(a) to the object at address a of a heap h; a call returns  *)
(* the heap it leaves and its value.  Constructing a list, tuple or dict    *)
(* allocates a new object; reading an attribute or an item gives the        *)
(* reference that is stored there.                                          *)

Ref(a) == [k |-> "ref", a |-> a]
HList(s) == [k |-> "list", items |-> s]
HTuple(s) == [k |-> "tuple", items |-> s]
HDict(s) == [k |-> "dict", items |-> s]
HLeaf(f) == [k |-> "leaf", f |-> f]
HTensor(v) == [k |-> "tensor", v |-> v]
HNode(cls, attrs, params, mods) ==
    [k |-> "node", cls |-> cls, attrs |-> attrs, params |-> params, mods |-> mods]

Res(h, v) == [h |-> h, v |-> v]
Alloc(h, cell) == Res(Append(h, cell), Ref(Len(h) + 1))
HThen(r, F(_, _)) == F(r.h, r.v)
KindOf(h, v) == IF v.k = "ref" THEN h[v.a].k ELSE v.k

(* getattr(self, name, default), default being a newly made object *)
HGetAttr(h, self, name, default) ==
    IF HasKey(h[self.a].attrs, name)
    THEN Res(h, GetKey(h[self.a].attrs, name))
    ELSE Alloc(h, default)

(* d[key] = val on the dict d *)
HSetItem(h, d, key, val) == [h EXCEPT ![d.a].items = PutKey(@, key, val)]

(* self.state_dict(): a new dict of the tensors themselves *)
heap_state_dict(h, self) == Alloc(h, HDict(h[self.a].params))

(* a serialize that files the state in the kwargs it was given *)
heap_LoadableMixin_serialize_into_kwargs(h, self) ==
    HThen(HGetAttr(h, self, "_args", HTuple(<<>>)), LAMBDA h1, a :
    HThen(HGetAttr(h1, self, "_kwargs", HDict(<<>>)), LAMBDA h2, kw :
    HThen(heap_state_dict(h2, self), LAMBDA h3, st :
    Alloc(HSetItem(h3, kw, "state", st),
          HDict(<<Item("cassetta.Loadable", Str(__version__)),
                  Item("module", Str("user.nodes")),
                  Item("qualname", Str(h[self.a].cls)),
                  Item("args", a),
                  Item("kwargs", kw)>>)))))

(* LoadableMixin.serialize, lines 259-269 *)
heap_LoadableMixin_serialize(h, self) ==
    HThen(HGetAttr(h, self, "_args", HTuple(<<>>)), LAMBDA h1, a :
    HThen(HGetAttr(h1, self, "_kwargs", HDict(<<>>)), LAMBDA h2, kw :
    HThen(heap_state_dict(h2, self), LAMBDA h3, st :
    Alloc(h3, HDict(<<Item("cassetta.Loadable", Str(__version__)),
                      Item("module", Str("user.nodes")),
                      Item("qualname", Str(h[self.a].cls)),
                      Item("args", a),
                      Item("kwargs", kw),
                      Item("state", st)>>)))))

(* lines 557-558: [[]] + list(args[1:]) when args[0] is a tensor *)
HRemoveParams(h, args) ==
    IF h[args.a].items # <<>> /\ KindOf(h, h[args.a].items[1]) = "tensor"
    THEN HThen(Alloc(h, HList(<<>>)), LAMBDA h1, e :
         Alloc(h1, HList(<<e>> \o Tail(h[args.a].items))))
    ELSE Res(h, args)

(* LoadableOptimizer.serialize, lines 548-563 *)
heap_LoadableOptimizer_serialize(h, self) ==
    HThen(heap_LoadableMixin_serialize(h, self), LAMBDA h1, r :
    HThen(heap_state_dict(h1, self), LAMBDA h2, st :
    HThen(HRemoveParams(HSetItem(h2, r, "state", st), GetKey(h1[r.a].items, "args")),
          LAMBDA h3, args :
    Res(HSetItem(HSetItem(h3, r, "args", args),
                 r, "kwargs", GetKey(h1[r.a].items, "kwargs")), r))))

(* [module.serialize() for module in self]; the children here are plain nodes *)
RECURSIVE HSerializeChildren(_, _)
HSerializeChildren(h, ms) ==
    IF ms = <<>> THEN Res(h, <<>>)
    ELSE HThen(heap_LoadableMixin_serialize(h, Head(ms)), LAMBDA h1, r :
         HThen(HSerializeChildren(h1, Tail(ms)), LAMBDA h2, rs : Res(h2, <<r>> \o rs)))

(* LoadableSequential.serialize, lines 476-483 *)
heap_LoadableSequential_serialize(h, self) ==
    HThen(HSerializeChildren(h, h[self.a].mods), LAMBDA h1, rs :
    HThen(Alloc(h1, HList(rs)), LAMBDA h2, a :
    HThen(HGetAttr(h2, self, "_kwargs", HDict(<<>>)), LAMBDA h3, kw :
    Alloc(h3, HDict(<<Item("cassetta.Loadable", Str(__version__)),
                      Item("module", Str("user.nodes")),
                      Item("qualname", Str(h[self.a].cls)),
                      Item("args", a),
                      Item("kwargs", kw)>>)))))

(* self.serialize() *)
heap_serialize(h, self) ==
    CASE h[self.a].cls = "SGD" -> heap_LoadableOptimizer_serialize(h, self)
      [] h[self.a].cls = "Seq" -> heap_LoadableSequential_serialize(h, self)
      [] OTHER -> heap_LoadableMixin_serialize(h, self)

(* LoadableMixin._nested_serialize, lines 162-179; every module here is     *)
(* loadable                                                                 *)
RECURSIVE heap_nested_serialize(_, _)
RECURSIVE HSerializeAll(_, _)
HSerializeAll(h, vals) ==
    IF vals = <<>> THEN Res(h, <<>>)
    ELSE HThen(heap_nested_serialize(h, Head(vals)), LAMBDA h1, v :
         HThen(HSerializeAll(h1, Tail(vals)), LAMBDA h2, vs : Res(h2, <<v>> \o vs)))

heap_nested_serialize(h, obj) ==
    IF KindOf(h, obj) = "node" THEN heap_serialize(h, obj)
    ELSE IF KindOf(h, obj) \in {"list", "tuple"}
    THEN HThen(HSerializeAll(h, h[obj.a].items), LAMBDA h1, vs :
               Alloc(h1, [k |-> h[obj.a].k, items |-> vs]))
    ELSE IF KindOf(h, obj) = "dict"
    THEN HThen(HSerializeAll(h, Values(h[obj.a].items)), LAMBDA h1, vs :
               Alloc(h1, HDict([i \in 1..Len(vs) |->
                                  Item(h[obj.a].items[i].key, vs[i])])))
    ELSE Res(h, obj)

(* the save_args wrapper, lines 238-244; args and kwargs are the tuple and  *)
(* the dict of the call                                                     *)
heap_save_args_wrapper(h, self, args, kwargs) ==
    IF HasKey(h[self.a].attrs, "_args") THEN h
    ELSE HThen(heap_nested_serialize(h, args), LAMBDA h1, a :
         HThen(heap_nested_serialize(h1, kwargs), LAMBDA h2, kw :
         [h2 EXCEPT ![self.a].attrs = PutKey(PutKey(@, "_args", a), "_kwargs", kw)]))

(* what a value is, read through the references it holds *)
RECURSIVE Deep(_, _)
Deep(h, v) ==
    IF v.k # "ref" THEN v
    ELSE IF h[v.a].k \in {"list", "tuple"}
    THEN [h[v.a] EXCEPT !.items = [i \in 1..Len(@) |-> Deep(h, @[i])]]
    ELSE IF h[v.a].k = "dict"
    THEN [h[v.a] EXCEPT !.items = [i \in 1..Len(@) |->
                                    Item(@[i].key, Deep(h, @[i].val))]]
    ELSE IF h[v.a].k = "node" THEN v
    ELSE h[v.a]

----------------------------------------------------------------------------
(* cassetta.core.utils *)

Range(s) == [k |-> "range", items |-> s]

(* the truth value of an optional length: None and 0 are false *)
Truthy(length) == length # None /\ length.v # 0

(* lines 27-30: the items of the list x is or is turned into *)
AsList(x) ==
    IF x.k \notin {"list", "tuple", "range", "generator"} THEN <<x>> ELSE x.items

(* lines 31-33: x += default * (length - len(x)) *)
Padded(x, length, kwargs) ==
    IF Truthy(length) /\ Len(x) < length.v
    THEN x \o [i \in 1..(length.v - Len(x)) |->
                 DictGet(kwargs, "default", IF x # <<>> THEN x[Len(x)] ELSE None)]
    ELSE x

(* lines 34-35: x = x[:length] *)
Cropped(x, length, crop) ==
    IF Truthy(length) /\ crop
    THEN SubSeq(x, 1, IF length.v < Len(x) THEN length.v ELSE Len(x))
    ELSE x

ensure_list(x, length, crop, kwargs) ==
    List(Cropped(Padded(AsList(x), length, kwargs), length, crop))

(* the caller's x after ensure_list(x, ...): += extends a list in place,    *)
(* list(x) runs a generator to its end, and x[:length] is a new list        *)
ensure_list_x(x, length, kwargs) ==
    IF x.k = "list" THEN List(Padded(x.items, length, kwargs)) ELSE Exhaust(x)

ensure_tuple(x, length, crop, kwargs) ==
    Tuple(ensure_list(x, length, crop, kwargs).items)

(* one turn of the loop of _compare_versions, lines 100-119: whether it     *)
(* returns, and what                                                        *)
StepReturns(v1, mode, v2) ==
    mode \in {"gt", ">", "ge", ">=", "lt", "<", "le", "<="} /\ v1 # v2
StepValue(v1, mode, v2) ==
    IF mode \in {"gt", ">", "ge", ">="} THEN v1 > v2 ELSE v1 < v2

(* _compare_versions: zip stops at the shorter of the two versions *)
RECURSIVE _compare_versions(_, _, _)
_compare_versions(version1, mode, version2) ==
    IF version1 = <<>> \/ version2 = <<>>
    THEN mode \notin {"gt", "lt", ">", "<"}
    ELSE IF StepReturns(Head(version1), mode, Head(version2))
    THEN StepValue(Head(version1), mode, Head(version2))
    ELSE _compare_versions(Tail(version1), mode, Tail(version2))

(* str.split(sep) on a string given as the sequence of its characters *)
RECURSIVE Split(_, _)
Split(str, sep) ==
    IF \A i \in 1..Len(str) : str[i] # sep THEN <<str>>
    ELSE <<SubSeq(str, 1, (CHOOSE i \in 1..Len(str) :
                             str[i] = sep /\ \A j \in 1..(i - 1) : str[j] # sep) - 1)>>
         \o Split(SubSeq(str, (CHOOSE i \in 1..Len(str) :
                                 str[i] = sep /\ \A j \in 1..(i - 1) : str[j] # sep) + 1,
                         Len(str)), sep)

Digits == <<"0", "1", "2", "3", "4", "5", "6", "7", "8", "9">>
AlphaTags ==
    <<"a", "b", "c", "d", "e", "f", "g", "h", "i", "j", "k", "l", "m", "n", "o",
      "p", "q", "r", "s", "t", "u", "v", "w", "x", "y">>

(* int(str) of a string of digits *)
RECURSIVE int(_)
int(str) ==
    IF str = <<>> THEN 0
    ELSE 10 * int(SubSeq(str, 1, Len(str) - 1))
         + (CHOOSE d \in 0..9 : Digits[d + 1] = str[Len(str)])

(* lines 141-143: patch = patch[:patch.index(x)] for each letter x in turn *)
RECURSIVE StripAlpha(_, _)
StripAlpha(patch, letters) ==
    IF letters = <<>> THEN patch
    ELSE StripAlpha(
             IF InSeq(Head(letters), patch)
             THEN SubSeq(patch, 1, (CHOOSE i \in 1..Len(patch) :
                                      patch[i] = Head(letters)
                                      /\ \A j \in 1..(i - 1) : patch[j] # Head(letters)) - 1)
             ELSE patch,
             Tail(letters))

(* lines 138-144: the installed version as a tuple of three integers *)
CurrentVersion(torch___version__) ==
    <<int(Split(Split(torch___version__, "+")[1], ".")[1]),
      int(Split(Split(torch___version__, "+")[1], ".")[2]),
      int(StripAlpha(Split(Split(torch___version__, "+")[1], ".")[3], AlphaTags))>>

torch_version(torch___version__, mode, version) ==
    _compare_versions(CurrentVersion(torch___version__), mode,
                      AsList(ensure_list(version, None, TRUE, <<>>)))

----------------------------------------------------------------------------
(* Data types: a torch dtype, a Python or numbers type, a numpy scalar type, *)
(* or the name of one as a string                                           *)

Torch(name) == [k |-> "torch.dtype", name |-> name]
PyType(name) == [k |-> "type", name |-> name]
Np(name) == [k |-> "numpy", name |-> name]

_dtype_python2torch ==
    <<Item(PyType("float"), Torch("float32")),
      Item(PyType("complex"), Torch("complex64")),
      Item(PyType("int"), Torch("int64")),
      Item(PyType("bool"), Torch("bool"))>>

_dtype_numbers2torch ==
    <<Item(PyType("numbers.Number"), Torch("float32")),
      Item(PyType("numbers.Rational"), Torch("float32")),
      Item(PyType("numbers.Real"), Torch("float32")),
      Item(PyType("numbers.Complex"), Torch("complex64")),
      Item(PyType("numbers.Integral"), Torch("int64"))>>

_dtype_str2torch ==
    <<Item(Str("float"), Torch("float32")),
      Item(Str("complex"), Torch("complex64"))>>

(* with the float16 entry that lines 183-187 add when torch has float16 *)
_dtype_np2torch ==
    <<Item(Np("bool_"), Torch("bool")),
      Item(Np("uint8"), Torch("uint8")),
      Item(Np("int8"), Torch("int8")),
      Item(Np("int16"), Torch("int16")),
      Item(Np("int32"), Torch("int32")),
      Item(Np("int64"), Torch("int64")),
      Item(Np("float32"), Torch("float32")),
      Item(Np("float64"), Torch("float64")),
      Item(Np("complex64"), Torch("complex64")),
      Item(Np("complex128"), Torch("complex128")),
      Item(Np("float16"), Torch("float16"))>>

_dtype_upcast2torch ==
    <<Item(Np("uint16"), Torch("int32")),
      Item(Np("uint32"), Torch("int64"))>>

_dtype_trunc2torch ==
    <<Item(Np("uint64"), Torch("int64")),
      Item(Np("uint128"), Torch("int64")),
      Item(Np("uint256"), Torch("int64")),
      Item(Np("int128"), Torch("int64")),
      Item(Np("int256"), Torch("int64")),
      Item(Np("float80"), Torch("float64")),
      Item(Np("float96"), Torch("float64")),
      Item(Np("float128"), Torch("float64")),
      Item(Np("float256"), Torch("float64")),
      Item(Np("complex160"), Torch("complex128")),
      Item(Np("complex192"), Torch("complex128")),
      Item(Np("complex256"), Torch("complex128")),
      Item(Np("complex512"), Torch("complex128"))>>

(* the names numpy has a scalar type for, among those of the tables *)
NpNames ==
    {"bool_", "uint8", "int8", "int16", "int32", "int64", "float16", "float32",
     "float64", "complex64", "complex128", "uint16", "uint32", "uint64",
     "float128", "complex256"}

(* np.dtype(dtype).type: a numpy scalar type is itself, the name of one is  *)
(* that type, anything else is not understood                               *)
np_dtype_type(dtype) ==
    IF dtype.k = "numpy" THEN Ok(dtype)
    ELSE IF dtype.k = "str" /\ dtype.v \in NpNames THEN Ok(Np(dtype.v))
    ELSE Raise("TypeError", <<>>)

(* lines 253-264: the numpy scalar type looked up in the three tables *)
FromNumpy(dtype, upcast, trunc) ==
    IF HasKey(_dtype_np2torch, dtype) THEN Ok(GetKey(_dtype_np2torch, dtype))
    ELSE IF HasKey(_dtype_upcast2torch, dtype)
    THEN IF ~upcast THEN Raise("TypeError", <<>>)
         ELSE Ok(GetKey(_dtype_upcast2torch, dtype))
    ELSE IF HasKey(_dtype_trunc2torch, dtype)
    THEN IF ~upcast THEN Raise("TypeError", <<>>)
         ELSE Ok(GetKey(_dtype_trunc2torch, dtype))
    ELSE Raise("TypeError", <<>>)

to_torch_dtype(dtype, upcast, trunc) ==
    IF dtype = None \/ dtype = Str("") THEN Ok(None)
    ELSE IF dtype.k = "torch.dtype" THEN Ok(dtype)
    ELSE IF HasKey(_dtype_python2torch, dtype)
    THEN Ok(GetKey(_dtype_python2torch, dtype))
    ELSE IF HasKey(_dtype_numbers2torch, dtype)
    THEN Ok(GetKey(_dtype_numbers2torch, dtype))
    ELSE IF HasKey(_dtype_str2torch, dtype)
    THEN Ok(GetKey(_dtype_str2torch, dtype))
    ELSE Then(np_dtype_type(dtype), LAMBDA t : FromNumpy(t, upcast, trunc))

----------------------------------------------------------------------------
(* Hand edits of a record before it is loaded *)

IsRecord(v) == v.k = "dict" /\ HasKey(v.items, "cassetta.Loadable")

EditKinds ==
    {"version", "drop_module", "drop_qualname", "drop_args", "drop_kwargs",
     "bad_qualname"}

NestedEditKinds == {"version", "bad_qualname"}

(* one edit of one tagged record *)
EditRecord(r, e) ==
    Dict(CASE e = "version" -> PutKey(r.items, "cassetta.Loadable", Str("2.0"))
           [] e = "drop_module" -> DelKey(r.items, "module")
           [] e = "drop_qualname" -> DelKey(r.items, "qualname")
           [] e = "drop_args" -> DelKey(r.items, "args")
           [] e = "drop_kwargs" -> DelKey(r.items, "kwargs")
           [] e = "bad_qualname" -> PutKey(r.items, "qualname", Str("Missing")))

(* the same edit of every tagged record inside a value *)
RECURSIVE EditAll(_, _)
EditAll(v, e) ==
    IF IsRecord(v) THEN EditRecord(v, e)
    ELSE IF v.k \in {"list", "tuple"}
    THEN [v EXCEPT !.items = [i \in 1..Len(v.items) |-> EditAll(v.items[i], e)]]
    ELSE IF v.k = "dict"
    THEN [v EXCEPT !.items = [i \in 1..Len(v.items) |->
                                Item(v.items[i].key, EditAll(v.items[i].val, e))]]
    ELSE v

(* the edit applied to the records nested in args and kwargs of r *)
EditNested(r, e) ==
    Dict([i \in 1..Len(r.items) |->
            IF r.items[i].key \in {"args", "kwargs"}
            THEN Item(r.items[i].key, EditAll(r.items[i].val, e))
            ELSE r.items[i]])

----------------------------------------------------------------------------
(* The scenario: build a graph, serialize it, load the record, serialize    *)
(* and load what was loaded.                                                *)

MaxPrim == 1

NoCall == [op |-> "", cls |-> None, args |-> <<>>, kwargs |-> <<>>, err |-> "",
           before |-> None]
Call(op, cls, args, kwargs, err, before) ==
    [op |-> op, cls |-> cls, args |-> args, kwargs |-> kwargs, err |-> err,
     before |-> before]

(* nesting depth of objects and records in a value *)
RECURSIVE Depth(_)
Max(S) == IF S = {} THEN 0 ELSE CHOOSE x \in S : \A y \in S : y <= x
Depth(v) ==
    IF v.k = "object"
    THEN 1 + Max({Depth(v.mods[i].val) : i \in 1..Len(v.mods)}
                 \cup {Depth(v.attrs[i].val) : i \in 1..Len(v.attrs)})
    ELSE IF v.k = "dict"
    THEN (IF IsRecord(v) THEN 1 ELSE 0)
         + Max({Depth(v.items[i].val) : i \in 1..Len(v.items)})
    ELSE IF v.k \in {"list", "tuple"}
    THEN Max({Depth(v.items[i]) : i \in 1..Len(v.items)})
    ELSE 0

(* ready-made children *)
ChildA == Construct(NodeA, <<Prim(1)>>, <<>>).val
ChildB ==
    load_state_dict(
        Construct(NodeB, <<Prim(1), Prim(2)>>, <<Item("k", Prim(3))>>).val,
        StateDict(1))
ChildLinear == NewObject(nn_Linear)
ChildSGD == Construct(LoadableSGD, <<Tensor(1), Prim(1)>>, <<>>).val
Children == {ChildA, ChildB, ChildLinear, ChildSGD}

(* values a constructor argument is drawn from *)
Atoms ==
    {Prim(n) : n \in 1..MaxPrim}
    \cup {Dict(<<Item("a", Tuple(<<Prim(2), ChildB>>))>>), List(<<ChildLinear>>)}
ArgTuples(S) == UNION {[1..n -> S] : n \in 0..MaxArgs}
KwDicts(S) == {<<>>} \cup {<<Item("k", v)>> : v \in S}
Iterables(S) ==
    {List(ms) : ms \in ArgTuples(S)} \cup {Generator(ms) : ms \in ArgTuples(S)}

IsContainer(v) ==
    v.k = "object"
    /\ (isinstance(v, nn_Sequential) \/ isinstance(v, nn_ModuleList)
        \/ isinstance(v, nn_ModuleDict))
IsOrdered(v) ==
    v.k = "object" /\ (isinstance(v, nn_Sequential) \/ isinstance(v, nn_ModuleList))

(* the objects the aliasing scenario starts with: a list, a dict, a leaf    *)
(* object, and the loadable node Child() with its tensor and its capture    *)
AList == Ref(1)
ADict == Ref(2)
ALeaf == Ref(3)
ATensor == Ref(4)
AChild == Ref(7)
(* no utility function has returned yet *)
Pending == Ok([k |-> "pending"])

Heap0 ==
    <<HList(<<Prim(1)>>),
      HDict(<<Item("a", Prim(1))>>),
      HLeaf(0),
      HTensor(0),
      HTuple(<<>>),
      HDict(<<>>),
      HNode("Child", <<Item("_args", Ref(5)), Item("_kwargs", Ref(6))>>,
            <<Item("weight", Ref(4))>>, <<>>)>>

InitMain ==
    /\ pc = "init"
    /\ G = None
    /\ last = NoCall
    /\ rec = None
    /\ edit = ""
    /\ hint = LoadableMixin
    /\ out = Ok(None)
    /\ out2 = Ok(None)
    /\ warns = <<>>

InitAside ==
    /\ heap = Heap0
    /\ node = 0
    /\ recs = <<>>
    /\ hop = ""

InitAsked ==
    /\ call = None
    /\ ret = Pending
    /\ arg = None

InitTraining ==
    /\ trainer = None
    /\ at = ""
    /\ calls = <<>>
    /\ given = None
    /\ loaded = <<>>

Init == InitMain /\ InitAside /\ InitAsked /\ InitTraining

Frozen == UNCHANGED <<rec, edit, hint, out, out2, warns, aside, asked, training>>

(* a constructor call ends the scenario when it raises *)
Built(r, klass, args, kwargs) ==
    /\ G' = r.val
    /\ pc' = IF r.err = "" THEN "build" ELSE "failed"
    /\ last' = Call("new", klass, args, kwargs, r.err, None)
    /\ Frozen

New(klass, args, kwargs) == Built(Construct(klass, args, kwargs), klass, args, kwargs)

(* G = klass(args, kwargs) for a user class *)
NewNode ==
    /\ pc = "init"
    /\ \E klass \in {NodeA, NodeB, NodeC} :
       \E args \in ArgTuples(Atoms) :
       \E kwargs \in KwDicts({List(<<ChildA>>),
                               Dict(<<Item("d", Tuple(<<ChildLinear>>))>>)}) :
          New(klass, args, kwargs)

(* G = NodeP1(x), NodeP2(x, y), or either with an argument too many or few *)
NewPlain ==
    /\ pc = "init"
    /\ \E klass \in {NodeP1, NodeP2} :
       \E args \in {<<Prim(1)>>, <<Prim(1), Prim(1)>>} :
          New(klass, args, <<>>)

(* G = LoadableSGD(params, lr) or LoadableSGD(params, lr=lr) *)
NewOptimizer ==
    /\ pc = "init"
    /\ \E params \in {Tensor(1), List(<<Tensor(1), Tensor(2)>>),
                      Generator(<<Tensor(1), Tensor(2)>>)} :
       \E lrkw \in BOOLEAN :
          New(LoadableSGD,
              IF lrkw THEN <<params>> ELSE <<params, Prim(1)>>,
              IF lrkw THEN <<Item("lr", Prim(1))>> ELSE <<>>)

(* G = LoadableSequential(ms...), LoadableModuleList(ms), LoadableModuleDict(ms) *)
NewContainer ==
    /\ pc = "init"
    /\ \E ms \in {<<>>, <<ChildA>>, <<ChildB, ChildLinear>>} :
       \E klass \in {LoadableSequential, LoadableModuleList, LoadableModuleDict} :
          New(klass,
              CASE klass = LoadableSequential -> ms
                [] klass = LoadableModuleList -> <<List(ms)>>
                [] klass = LoadableModuleDict ->
                     <<Dict([i \in 1..Len(ms) |->
                               Item(IF i = 1 THEN "x" ELSE "y", ms[i])])>>,
              <<>>)

(* G is passed to the constructor of a new G: as an argument of a user      *)
(* class, or as the child of a new container                                *)
Wrap ==
    /\ pc = "build"
    /\ Depth(G) < MaxDepth
    /\ isinstance(G, nn_Module)
    /\ \E klass \in {NodeB, LoadableSequential, LoadableModuleList,
                      LoadableModuleDict} :
       \E a \in {G, Dict(<<Item("m", G)>>)} :
       \E asKw \in BOOLEAN :
          /\ klass # NodeB => a = G /\ ~asKw /\ IsContainer(G)
          /\ New(klass,
                 CASE klass = LoadableModuleList -> <<List(<<G>>)>>
                   [] klass = LoadableModuleDict -> <<Dict(<<Item("x", G)>>)>>
                   [] OTHER -> IF asKw THEN <<>> ELSE <<a>>,
                 IF asKw THEN <<Item("m", a)>> ELSE <<>>)

(* G.load_state_dict(...) / training: the state of G changes *)
Train ==
    /\ pc = "build"
    /\ ~IsContainer(G)
    /\ G.state = StateDict(0)
    /\ G' = load_state_dict(G, StateDict(1))
    /\ last' = Call("train", None, <<>>, <<>>, "", G)
    /\ UNCHANGED pc
    /\ Frozen

(* a container method: the container is changed in place, also when the     *)
(* method raises                                                            *)
Called(r, op, args) ==
    /\ G' = r.val
    /\ last' = Call(op, None, args, <<>>, r.err, G)
    /\ UNCHANGED pc
    /\ Frozen

(* G.append(module) *)
DoAppend ==
    /\ pc = "build"
    /\ IsOrdered(G)
    /\ Len(G.mods) < MaxChildren
    /\ \E module \in Children :
          Called(IF isinstance(G, nn_Sequential)
                 THEN LoadableSequential_append(G, module)
                 ELSE LoadableModuleList_append(G, module),
                 "append", <<module>>)

(* G.insert(index, module) *)
DoInsert ==
    /\ pc = "build"
    /\ IsOrdered(G)
    /\ Len(G.mods) < MaxChildren
    /\ \E module \in Children :
       \E index \in 0..Len(G.mods) :
          Called(IF isinstance(G, nn_Sequential)
                 THEN LoadableSequential_insert(G, index, module)
                 ELSE LoadableModuleList_insert(G, index, module),
                 "insert", <<module>>)

(* G.extend(modules) *)
DoExtend ==
    /\ pc = "build"
    /\ IsOrdered(G)
    /\ \E modules \in Iterables({ChildA, ChildLinear}) :
          /\ Len(G.mods) + Len(modules.items) <= MaxChildren
          /\ Called(IF isinstance(G, nn_Sequential)
                    THEN LoadableSequential_extend(G, modules)
                    ELSE LoadableModuleList_extend(G, modules),
                    "extend", modules.items)

(* G[key] = module *)
DoSetItem ==
    /\ pc = "build"
    /\ IsContainer(G) /\ ~IsOrdered(G)
    /\ \E module \in Children :
       \E key \in {"x", "y"} :
          Called(LoadableModuleDict___setitem__(G, key, module),
                 "setitem", <<module>>)

(* rec = G.serialize() *)
Serialize ==
    /\ pc = "build"
    /\ rec' = serialize(G)
    /\ pc' = "saved"
    /\ last' = NoCall
    /\ UNCHANGED <<G, edit, hint, out, out2, warns, aside, asked, training>>

(* G.save(path): rec is what path then holds *)
Save ==
    /\ pc = "build"
    /\ warns' = warns \o save_warnings(G)
    /\ rec' = serialize(G)
    /\ pc' = "stored"
    /\ last' = Call("save", None, <<>>, <<>>, "", G)
    /\ UNCHANGED <<G, edit, hint, out, out2, aside, asked, training>>

(* the record is edited by hand, at the top or in every nested record *)
Edit ==
    /\ pc = "saved"
    /\ edit = ""
    /\ \/ \E e \in EditKinds :
             /\ rec' = EditRecord(rec, e)
             /\ edit' = e
       \/ \E e \in NestedEditKinds :
             /\ EditNested(rec, e) # rec
             /\ rec' = EditNested(rec, e)
             /\ edit' = "nested_" \o e
    /\ UNCHANGED <<pc, G, last, hint, out, out2, warns, aside, asked, training>>

(* out = load_module(rec), or out = cls.load(rec) on LoadableMixin itself,  *)
(* on the class of G or, for a record of NodeA or NodeB, on NodeC           *)
Load ==
    /\ pc = "saved"
    /\ \E cls \in {None, LoadableMixin, TypeOf(G), NodeC} :
          /\ cls = NodeC => (edit = "" /\ TypeOf(G) \in {NodeA, NodeB})
          /\ hint' = IF cls = None THEN LoadableMixin ELSE cls
          /\ out' = IF cls = None THEN load_module(rec) ELSE load(cls, rec)
    /\ pc' = "loaded"
    /\ UNCHANGED <<G, last, rec, edit, out2, warns, aside, asked, training>>

(* out2 = LoadableMixin.load(out.serialize()) *)
Reload ==
    /\ pc = "loaded"
    /\ out.err = ""
    /\ out2' = load(LoadableMixin, serialize(out.val))
    /\ pc' = "reloaded"
    /\ UNCHANGED <<G, last, rec, edit, hint, out, warns, aside, asked, training>>

Next ==
    \/ NewNode
    \/ NewPlain
    \/ NewOptimizer
    \/ NewContainer
    \/ Wrap
    \/ Train
    \/ DoAppend
    \/ DoInsert
    \/ DoExtend
    \/ DoSetItem
    \/ Serialize
    \/ Save
    \/ Edit
    \/ Load
    \/ Reload

Spec == Init /\ [][Next]_vars

----------------------------------------------------------------------------
(* The aliasing scenario: a node is built from arguments that the caller    *)
(* keeps, the caller changes those arguments in place, the node is          *)
(* serialized and saved, and the caller changes the records it was given.   *)

MaxLen == 2
MaxRecs == 2

Main == <<pc, G, last, rec, edit, hint, out, out2, warns>>

(* the calls: Node(x) or Node(x, k=y) of a user class, SGD(tensor, 1) of a  *)
(* user optimizer, Seq(child) of a user subclass of LoadableSequential; all *)
(* have a decorated __init__, and so has the base class of each             *)
HCalls ==
    {[cls |-> "Node", args |-> <<x>>, kwargs |-> kw] :
        x \in {Prim(1), AList, ALeaf, AChild},
        kw \in {<<>>, <<Item("k", ADict)>>, <<Item("k", ALeaf)>>}}
    \cup {[cls |-> c, args |-> IF c = "SGD" THEN <<ATensor, Prim(1)>> ELSE <<AChild>>,
            kwargs |-> kw] :
        c \in {"SGD", "Seq"}, kw \in {<<>>, <<Item("k", ADict)>>}}

(* the object is made and the wrapper of the leaf __init__ has run *)
HNew ==
    /\ node = 0
    /\ \E c \in HCalls :
          /\ heap' = heap_save_args_wrapper(
                         heap \o <<HNode(c.cls, <<>>, <<>>, <<>>),
                                   HTuple(c.args), HDict(c.kwargs)>>,
                         Ref(Len(heap) + 1), Ref(Len(heap) + 2), Ref(Len(heap) + 3))
          /\ node' = Len(heap) + 1
    /\ hop' = "wrapper"
    /\ UNCHANGED <<recs, Main, asked, training>>

(* the call of super().__init__ with the positional arguments alone: the    *)
(* wrapper of the base class runs, then nn.Sequential takes its children    *)
HSuper ==
    /\ node # 0 /\ hop = "wrapper"
    /\ heap' = [heap_save_args_wrapper(
                    heap \o <<HTuple(heap[node + 1].items), HDict(<<>>)>>,
                    Ref(node), Ref(Len(heap) + 1), Ref(Len(heap) + 2))
                 EXCEPT ![node].mods =
                    IF heap[node].cls = "Seq" THEN heap[node + 1].items ELSE @]
    /\ hop' = "super"
    /\ UNCHANGED <<node, recs, Main, asked, training>>

HBuilt == node # 0 /\ hop # "wrapper"

(* whether the node was built with argument v *)
HGiven(v) ==
    InSeq(v, heap[node + 1].items) \/ InSeq(v, Values(heap[node + 2].items))

(* the caller changes an argument in place: a_list.append(2),               *)
(* a_dict["b"] = 2, a_leaf.f = 1, a step of training on the child's tensor  *)
HMutate ==
    /\ HBuilt
    /\ \/ /\ HGiven(AList)
          /\ Len(heap[AList.a].items) < MaxLen
          /\ heap' = [heap EXCEPT ![AList.a].items = Append(@, Prim(2))]
       \/ /\ HGiven(ADict)
          /\ ~HasKey(heap[ADict.a].items, "b")
          /\ heap' = HSetItem(heap, ADict, "b", Prim(2))
       \/ /\ HGiven(ALeaf)
          /\ heap[ALeaf.a].f = 0
          /\ heap' = [heap EXCEPT ![ALeaf.a].f = 1]
       \/ /\ HGiven(AChild)
          /\ heap[ATensor.a].v = 0
          /\ heap' = [heap EXCEPT ![ATensor.a].v = 1]
    /\ hop' = "mutate"
    /\ UNCHANGED <<node, recs, Main, asked, training>>

(* r = node.serialize() *)
HSerialize ==
    /\ HBuilt
    /\ Len(recs) < MaxRecs
    /\ heap' = heap_serialize(heap, Ref(node)).h
    /\ recs' = Append(recs, heap_serialize(heap, Ref(node)).v)
    /\ hop' = "serialize"
    /\ UNCHANGED <<node, Main, asked, training>>

(* the addresses an object refers to *)
HRefs(cell) ==
    LET vals == CASE cell.k \in {"list", "tuple"} -> cell.items
                  [] cell.k = "dict" -> Values(cell.items)
                  [] cell.k = "node" ->
                       Values(cell.attrs) \o Values(cell.params) \o cell.mods
                  [] OTHER -> <<>>
    IN  {vals[i].a : i \in {j \in 1..Len(vals) : vals[j].k = "ref"}}

(* the heap h once the objects made after the n-th are dropped, which they *)
(* are when no older object refers to them                                  *)
HDrop(h, n) ==
    IF \E i \in 1..n : \E a \in HRefs(h[i]) : a > n THEN h ELSE SubSeq(h, 1, n)

(* node.save(path): the record goes to the file and is dropped *)
HSave ==
    /\ HBuilt
    /\ hop # "save"
    /\ heap' = HDrop(heap_serialize(heap, Ref(node)).h, Len(heap))
    /\ hop' = "save"
    /\ UNCHANGED <<node, recs, Main, asked, training>>

(* node.append(child) on the container *)
HAppendChild ==
    /\ HBuilt
    /\ heap[node].cls = "Seq"
    /\ Len(heap[node].mods) < MaxLen
    /\ heap' = [heap EXCEPT ![node].mods = Append(@, AChild)]
    /\ hop' = "append"
    /\ UNCHANGED <<node, recs, Main, asked, training>>

(* the caller changes the first record it was given: r["module"] =         *)
(* "edited", r["kwargs"]["z"] = 9, r["args"].append(9) where args is a list *)
HEditRecord ==
    /\ \E i \in {1} \cap DOMAIN recs :
          \/ /\ GetKey(heap[recs[i].a].items, "module") # Str("edited")
             /\ heap' = HSetItem(heap, recs[i], "module", Str("edited"))
          \/ /\ ~HasKey(heap[GetKey(heap[recs[i].a].items, "kwargs").a].items, "z")
             /\ heap' = HSetItem(heap, GetKey(heap[recs[i].a].items, "kwargs"),
                                 "z", Prim(9))
          \/ /\ KindOf(heap, GetKey(heap[recs[i].a].items, "args")) = "list"
             /\ Len(heap[GetKey(heap[recs[i].a].items, "args").a].items) < MaxLen
             /\ heap' = [heap EXCEPT ![GetKey(heap[recs[i].a].items, "args").a].items =
                                        Append(@, Prim(9))]
    /\ hop' = "edit"
    /\ UNCHANGED <<node, recs, Main, asked, training>>

NextHeap ==
    \/ HNew
    \/ HSuper
    \/ HMutate
    \/ HSerialize
    \/ HSave
    \/ HAppendChild
    \/ HEditRecord

SpecHeap == Init /\ [][NextHeap]_vars

----------------------------------------------------------------------------
(* The utility functions: each state of the start holds one call, drawn     *)
(* from the calls below, and the step of its function makes it.             *)

MaxLength == 3
MaxVersion == 1

Modes == {"<", "<=", ">", ">=", "lt", "le", "gt", "ge"}

(* a scalar, and lists, tuples, ranges and generators of 0 to 2 elements *)
EnsureInputs ==
    {Prim(1)}
    \cup {[k |-> kind, items |-> s] :
            kind \in {"list", "tuple", "range", "generator"},
            s \in {<<>>, <<Prim(1)>>, <<Prim(1), Prim(2)>>}}

Lengths == {None} \cup {Prim(n) : n \in 0..MaxLength}

(* tuples of 1 to 3 integers *)
Versions ==
    UNION {[1..n -> 0..MaxVersion] : n \in 1..3}

(* values of torch.__version__ *)
Installed ==
    {<<"1", ".", "0", ".", "1">>,
     <<"0", ".", "1", ".", "0", "a", "0", "+", "g", "i", "t">>,
     <<"1", ".", "1", ".", "0", "+", "c", "u", "1", "1", "7">>}

DTypes ==
    {None, Str(""), Torch("int64"), PyType("float"), PyType("numbers.Real"),
     PyType("str"), Str("float"), Str("uint16"), Str("uint64"), Str("nope"),
     Np("int32"), Np("float16"), Np("uint16"), Np("uint32"), Np("uint64"),
     Np("float128"), Np("complex256")}

UtilCalls ==
    {[fn |-> f, x |-> x, length |-> n, crop |-> c, kwargs |-> kw] :
        f \in {"ensure_list", "ensure_tuple"}, x \in EnsureInputs, n \in Lengths,
        c \in BOOLEAN, kw \in {<<>>, <<Item("default", Prim(0))>>}}
    \cup {[fn |-> "_compare_versions", version1 |-> v1, mode |-> m, version2 |-> v2] :
            v1 \in Versions, m \in Modes, v2 \in Versions}
    \cup {[fn |-> "torch_version", torch___version__ |-> t, mode |-> m,
            version |-> Tuple(v)] :
            t \in Installed, m \in Modes, v \in Versions}
    \cup {[fn |-> "to_torch_dtype", dtype |-> d, upcast |-> u, trunc |-> t] :
            d \in DTypes, u \in BOOLEAN, t \in BOOLEAN}

InitUtils ==
    /\ InitMain /\ InitAside /\ InitTraining
    /\ call \in UtilCalls
    /\ ret = Pending
    /\ arg = IF call.fn \in {"ensure_list", "ensure_tuple"} THEN call.x ELSE None

Asked(fn) == call # None /\ call.fn = fn /\ ret = Pending

Call_ensure_list ==
    /\ Asked("ensure_list")
    /\ ret' = Ok(ensure_list(call.x, call.length, call.crop, call.kwargs))
    /\ arg' = ensure_list_x(call.x, call.length, call.kwargs)
    /\ UNCHANGED <<call, Main, aside, training>>

Call_ensure_tuple ==
    /\ Asked("ensure_tuple")
    /\ ret' = Ok(ensure_tuple(call.x, call.length, call.crop, call.kwargs))
    /\ arg' = ensure_list_x(call.x, call.length, call.kwargs)
    /\ UNCHANGED <<call, Main, aside, training>>

Call__compare_versions ==
    /\ Asked("_compare_versions")
    /\ ret' = Ok(Prim(_compare_versions(call.version1, call.mode, call.version2)))
    /\ UNCHANGED <<call, arg, Main, aside, training>>

Call_torch_version ==
    /\ Asked("torch_version")
    /\ ret' = Ok(Prim(torch_version(call.torch___version__, call.mode, call.version)))
    /\ UNCHANGED <<call, arg, Main, aside, training>>

Call_to_torch_dtype ==
    /\ Asked("to_torch_dtype")
    /\ ret' = to_torch_dtype(call.dtype, call.upcast, call.trunc)
    /\ UNCHANGED <<call, arg, Main, aside, training>>

NextUtils ==
    \/ Call_ensure_list
    \/ Call_ensure_tuple
    \/ Call__compare_versions
    \/ Call_torch_version
    \/ Call_to_torch_dtype

SpecUtils == InitUtils /\ [][NextUtils]_vars

----------------------------------------------------------------------------
(* cassetta.training.trainers: the loop of SimpleSupervisedTrainer.train    *)

MaxEpochs == 3
MaxBatches == 2
MaxLoss == 1
MaxLoads == 2

(* a float: the quotient n / d, d > 0; float('inf') is 1 / 0 *)
Float(n, d) == [n |-> n, d |-> d]
inf == Float(1, 0)
Less(a, b) == a.n * b.d < b.n * a.d
Plus(a, b) == Float(a.n * b.d + b.n * a.d, a.d * b.d)
Over(a, len) == Float(a.n, a.d * len)

(* TrainingState() *)
TrainingState ==
    [current_epoch |-> 0, current_step |-> 0, epoch_train_loss |-> Float(0, 1),
     epoch_eval_loss |-> Float(0, 1), best_eval_loss |-> inf]

(* a trainer with its loaders made: the loaders by their number of          *)
(* minibatches, the checkpoint directory by its files, and the calls of     *)
(* torch.save it made, oldest first                                         *)
Trainer(nb_epochs, train_loader, eval_loader, optimizers) ==
    [k |-> "trainer", config |-> [nb_epochs |-> nb_epochs],
     training_state |-> TrainingState,
     models |-> Construct(LoadableModuleDict,
                          <<Dict(<<Item("main", ChildA)>>)>>, <<>>).val,
     optimizers |-> optimizers,
     losses |-> Construct(LoadableModuleDict,
                          <<Dict(<<Item("main", ChildB)>>)>>, <<>>).val,
     train_loader |-> train_loader, eval_loader |-> eval_loader,
     files |-> {}, saves |-> <<>>]

(* the state_dict() of a torch optimizer with one parameter group *)
OptimizerState(lr) ==
    Dict(<<Item("state", Dict(<<>>)),
           Item("param_groups",
                List(<<Dict(<<Item("lr", Prim(lr)),
                              Item("params", List(<<Prim(0)>>))>>)>>))>>)

(* the optimizer of the main model: LoadableSGD(params, lr=1) *)
MainOptimizer ==
    load_state_dict(
        Construct(LoadableSGD, <<Tensor(1)>>, <<Item("lr", Prim(1))>>).val,
        OptimizerState(1))

(* delete_files_with_pattern(checkpoint_dir, '*<kind>*') *)
delete_files_with_pattern(files, kind) == {f \in files : f.name[1] # kind}

(* the file that self.save writes: the name '<kind>-<current_epoch>.pt' and *)
(* what serialize() puts in it of the training state                        *)
Checkpoint(self, kind) ==
    [name |-> <<kind, self.training_state.current_epoch>>,
     training_state |-> self.training_state]

save_checkpoint(self, kind) ==
    [self EXCEPT !.files = delete_files_with_pattern(@, kind)
                              \cup {Checkpoint(self, kind)},
                 !.saves = Append(@, Checkpoint(self, kind))]

(* the loop over the minibatches: each step adds its loss to the sum *)
RECURSIVE Steps(_, _)
Steps(sum, losses) ==
    IF losses = <<>> THEN sum
    ELSE Steps(Plus(sum, Float(Head(losses), 1)), Tail(losses))

(* lines 515-534 *)
train_epoch(self, losses) ==
    [self EXCEPT !.training_state.epoch_train_loss =
                     Over(Steps(Float(0, 1), losses), Len(losses)),
                 !.training_state.current_step = @ + Len(losses)]

(* lines 542-548: the loss of the epoch, averaged over the minibatches *)
Averaged(self, losses) ==
    [self EXCEPT !.training_state.epoch_eval_loss =
                     Over(Steps(Float(0, 1), losses), Len(losses))]

(* an eval_epoch that saves the best checkpoint before it updates the best  *)
(* loss                                                                     *)
IfBest_save_first(self) ==
    IF Less(self.training_state.epoch_eval_loss, self.training_state.best_eval_loss)
    THEN [save_checkpoint(self, "best") EXCEPT
             !.training_state.best_eval_loss = self.training_state.epoch_eval_loss]
    ELSE self

(* lines 555-564 *)
IfBest(self) ==
    IF Less(self.training_state.epoch_eval_loss, self.training_state.best_eval_loss)
    THEN save_checkpoint(
             [self EXCEPT !.training_state.best_eval_loss =
                              self.training_state.epoch_eval_loss], "best")
    ELSE self

(* eval_epoch, for the losses of the minibatches of a loader that has some *)
eval_epoch(self, losses) == save_checkpoint(IfBest(Averaged(self, losses)), "last")

(* StateMixin.serialize of the training state and of the config:            *)
(* dataclasses.asdict                                                       *)
asdict(training_state) ==
    Dict(<<Item("current_epoch", Prim(training_state.current_epoch)),
           Item("current_step", Prim(training_state.current_step)),
           Item("epoch_train_loss", training_state.epoch_train_loss),
           Item("epoch_eval_loss", training_state.epoch_eval_loss),
           Item("best_eval_loss", training_state.best_eval_loss)>>)
config_asdict(config) == Dict(<<Item("nb_epochs", Prim(config.nb_epochs))>>)

(* TrainingState().load_state_dict(state): setattr for each key *)
TrainingState_load_state_dict(items) ==
    [current_epoch |-> DictGet(items, "current_epoch", Prim(0)).v,
     current_step |-> DictGet(items, "current_step", Prim(0)).v,
     epoch_train_loss |-> DictGet(items, "epoch_train_loss", Float(0, 1)),
     epoch_eval_loss |-> DictGet(items, "epoch_eval_loss", Float(0, 1)),
     best_eval_loss |-> DictGet(items, "best_eval_loss", inf)]

(* TrainerConfig of the keywords of state['config'] *)
TrainerConfig(items) == [nb_epochs |-> GetKey(items, "nb_epochs").v]

(* LoadableTrainer._get_components_state_dict *)
_get_components_state_dict(component) ==
    Dict([i \in 1..Len(component) |->
            Item(component[i].key, serialize(component[i].val))])

(* LoadableTrainer.serialize *)
LoadableTrainer_serialize(self) ==
    Dict(PutKey(PutKey(PutKey(PutKey(serialize(self.models).items,
             "losses", serialize(self.losses)),
             "optimizers", _get_components_state_dict(self.optimizers)),
             "training_state", asdict(self.training_state)),
             "config", config_asdict(self.config)))

(* cls() in load: a trainer with no model, optimizer, loss or config *)
NewTrainer ==
    [k |-> "trainer", config |-> None, training_state |-> TrainingState,
     models |-> Construct(LoadableModuleDict, <<>>, <<>>).val,
     optimizers |-> <<>>,
     losses |-> Construct(LoadableModuleDict, <<>>, <<>>).val]

(* what a call that was given the in-memory state leaves: its exception or  *)
(* its value, and the state as it then is                                   *)
Left(err, val, state_dict) == [err |-> err, val |-> val, state |-> state_dict]

(* state_dict['optimizers'][name]['state']['param_groups'][0], and whether  *)
(* the state has one                                                        *)
HasOptArgs(state_dict, name) ==
    /\ HasKey(GetKey(state_dict.items, "optimizers").items, name)
    /\ HasKey(GetKey(GetKey(state_dict.items, "optimizers").items, name).items, "state")
    /\ HasKey(GetKey(GetKey(GetKey(state_dict.items, "optimizers").items, name).items,
                     "state").items, "param_groups")
    /\ GetKey(GetKey(GetKey(GetKey(state_dict.items, "optimizers").items, name).items,
                     "state").items, "param_groups").items # <<>>
OptArgs(state_dict, name) ==
    GetKey(GetKey(GetKey(GetKey(state_dict.items, "optimizers").items, name).items,
                  "state").items, "param_groups").items[1]

(* the state after opt_args.pop('params'): opt_args is the dict that the    *)
(* state holds, not a copy of it                                            *)
Popped(state_dict, name) ==
    Dict(PutKey(state_dict.items, "optimizers",
      Dict(PutKey(GetKey(state_dict.items, "optimizers").items, name,
        Dict(PutKey(GetKey(GetKey(state_dict.items, "optimizers").items, name).items,
          "state",
          Dict(PutKey(GetKey(GetKey(GetKey(state_dict.items, "optimizers").items,
                                    name).items, "state").items,
            "param_groups",
            [GetKey(GetKey(GetKey(GetKey(state_dict.items, "optimizers").items,
                                  name).items, "state").items, "param_groups")
               EXCEPT !.items[1] =
                  Dict(DelKey(OptArgs(state_dict, name).items, "params"))]))))))))

(* lines 287-292: the optimizer class, from the module and qualname of the  *)
(* record                                                                   *)
OptimizerClass(optimizer_state) ==
    Then(Field(optimizer_state.items, "module"), LAMBDA m :
    Then(Field(optimizer_state.items, "qualname"), LAMBDA q : import_qualname(m, q)))

(* model.parameters() *)
parameters(model) == Generator(<<Tensor(model.state.v)>>)

RECURSIVE _optimizers_from_state_dict(_, _, _)

(* line 305: the optimizer is registered, and the loop goes on *)
Registered(obj, state_dict, names, optimizer) ==
    IF optimizer.err # "" THEN Left(optimizer.err, None, state_dict)
    ELSE _optimizers_from_state_dict(
             [obj EXCEPT !.optimizers = PutKey(@, Head(names), optimizer.val)],
             state_dict, Tail(names))

(* lines 296-303: the model of that name, opt_args, opt_args.pop('params'), *)
(* and the call of the optimizer class                                      *)
Initialized(obj, state_dict, names, klass) ==
    IF klass.err # "" THEN Left(klass.err, None, state_dict)
    ELSE IF ~HasKey(obj.models.mods, Head(names))
    THEN Left("AttributeError", None, state_dict)
    ELSE IF ~HasOptArgs(state_dict, Head(names))
    THEN Left("KeyError", None, state_dict)
    ELSE IF ~HasKey(OptArgs(state_dict, Head(names)).items, "params")
    THEN Left("KeyError", None, state_dict)
    ELSE Registered(obj, Popped(state_dict, Head(names)), names,
                    Construct(klass.val,
                              <<parameters(GetKey(obj.models.mods, Head(names)))>>,
                              DelKey(OptArgs(state_dict, Head(names)).items, "params")))

(* LoadableTrainer._optimizers_from_state_dict, for the names that are left *)
(* of optimizers_state.items()                                              *)
_optimizers_from_state_dict(obj, state_dict, names) ==
    IF names = <<>> THEN Left("", obj, state_dict)
    ELSE Initialized(obj, state_dict, names,
                     OptimizerClass(GetKey(GetKey(state_dict.items, "optimizers").items,
                                           Head(names))))

(* lines 246-255: the models, the losses, the training state, the config *)
Unpacked(state) ==
    Then(load(LoadableMixin, state), LAMBDA models :
    Then(Field(state.items, "losses"), LAMBDA l :
    Then(load(LoadableMixin, l), LAMBDA losses :
    Then(Field(state.items, "training_state"), LAMBDA t :
    Then(Field(state.items, "config"), LAMBDA c :
    Ok([NewTrainer EXCEPT !.models = models, !.losses = losses,
                          !.training_state = TrainingState_load_state_dict(t.items),
                          !.config = TrainerConfig(c.items)]))))))

(* lines 258-261: the optimizers, then best_eval_loss = float('inf') *)
Reset(left) ==
    IF left.err # "" THEN left
    ELSE [left EXCEPT !.val.training_state.best_eval_loss = inf]

(* the names of state_dict.get("optimizers", {}) *)
OptimizerNames(state) ==
    [i \in 1..Len(DictGet(state.items, "optimizers", Dict(<<>>)).items) |->
       DictGet(state.items, "optimizers", Dict(<<>>)).items[i].key]

WithOptimizers(state, unpacked) ==
    IF unpacked.err # "" THEN Left(unpacked.err, None, state)
    ELSE Reset(_optimizers_from_state_dict(unpacked.val, state, OptimizerNames(state)))

(* LoadableTrainer.load, called with an in-memory state *)
LoadableTrainer_load(state) == WithOptimizers(state, Unpacked(state))

(* LoadableTrainer.register_optimizer *)
register_optimizer(self, name, optim) ==
    [self EXCEPT !.optimizers = PutKey(@, name, optim)]

(* the trainers: nb_epochs epochs, one training minibatch, 0 or more        *)
(* evaluation minibatches, no optimizer yet                                 *)
Trainers ==
    {Trainer(n, 1, e, <<>>) : n \in 1..MaxEpochs, e \in 0..MaxBatches}

InitTrainer ==
    /\ InitMain /\ InitAside /\ InitAsked
    /\ trainer \in Trainers
    /\ at = "train_epoch"
    /\ calls = <<>>
    /\ given = None
    /\ loaded = <<>>

Others == <<Main, aside, asked>>

(* train(), lines 577-578: self.train_epoch() *)
TrainEpoch ==
    /\ at = "train_epoch"
    /\ \E losses \in [1..trainer.train_loader -> {MaxLoss}] :
          trainer' = train_epoch(trainer, losses)
    /\ at' = IF trainer.eval_loader # 0 THEN "eval_epoch" ELSE "increment"
    /\ UNCHANGED <<calls, given, loaded, Others>>

(* train(), lines 579-580: if self.eval_loader: self.eval_epoch() *)
EvalEpoch ==
    /\ at = "eval_epoch"
    /\ \E losses \in [1..trainer.eval_loader -> 0..MaxLoss] :
          /\ trainer' = eval_epoch(trainer, losses)
          /\ calls' = Append(calls,
                 [loss |-> Averaged(trainer, losses).training_state.epoch_eval_loss,
                  before |-> trainer.training_state.best_eval_loss,
                  saved |-> SubSeq(eval_epoch(trainer, losses).saves,
                                   Len(trainer.saves) + 1,
                                   Len(eval_epoch(trainer, losses).saves))])
    /\ at' = "increment"
    /\ UNCHANGED <<given, loaded, Others>>

(* train(), lines 581-582: self.training_state.current_epoch += 1, and the  *)
(* loop goes on or ends                                                     *)
Increment ==
    /\ at = "increment"
    /\ trainer' = [trainer EXCEPT !.training_state.current_epoch = @ + 1]
    /\ at' = IF trainer.training_state.current_epoch + 1 < trainer.config.nb_epochs
             THEN "train_epoch" ELSE "done"
    /\ UNCHANGED <<calls, given, loaded, Others>>

(* trainer.register_optimizer('main', optimizer) *)
RegisterOptimizer ==
    /\ at = "done"
    /\ given = None
    /\ trainer.optimizers = <<>>
    /\ trainer' = register_optimizer(trainer, "main", MainOptimizer)
    /\ UNCHANGED <<at, calls, given, loaded, Others>>

(* state = trainer.serialize(), kept in memory *)
SerializeTrainer ==
    /\ at = "done"
    /\ given = None
    /\ given' = LoadableTrainer_serialize(trainer)
    /\ UNCHANGED <<trainer, at, calls, loaded, Others>>

(* the call returned or raised, and the state is as the call left it *)
Returns(left) ==
    /\ loaded' = Append(loaded, [err |-> left.err, val |-> left.val])
    /\ given' = left.state

(* LoadableTrainer.load(state), once and once more with the same state *)
LoadTrainer ==
    /\ given # None
    /\ Len(loaded) < MaxLoads
    /\ Returns(LoadableTrainer_load(given))
    /\ UNCHANGED <<trainer, at, calls, Others>>

NextTrainer ==
    \/ TrainEpoch
    \/ EvalEpoch
    \/ Increment
    \/ RegisterOptimizer
    \/ SerializeTrainer
    \/ LoadTrainer

SpecTrainer == InitTrainer /\ [][NextTrainer]_vars

----------------------------------------------------------------------------
(* Properties *)

IsKeyed(v) == IsContainer(v) /\ ~IsOrdered(v)
IsOptimizer(v) == v.k = "object" /\ isinstance(v, LoadableOptimizer)
UserClasses == {NodeA, NodeB, NodeC}

(* two live graphs agree in the class, the captured arguments and the state *)
(* of every node                                                            *)
RECURSIVE SameGraph(_, _)
SameGraph(a, b) ==
    /\ TypeOf(a) = TypeOf(b)
    /\ getattr(a, "_args", None) = getattr(b, "_args", None)
    /\ getattr(a, "_kwargs", None) = getattr(b, "_kwargs", None)
    /\ a.state = b.state
    /\ Len(a.mods) = Len(b.mods)
    /\ \A i \in 1..Len(a.mods) :
          i <= Len(b.mods) =>
             /\ a.mods[i].key = b.mods[i].key
             /\ SameGraph(a.mods[i].val, b.mods[i].val)

(* C1: loading the record of a graph that holds no optimizer gives back a   *)
(* graph with the same class, captured arguments and state in every node.   *)
C1_RoundTripIdentity ==
    (pc = "loaded" /\ edit = "" /\ hint = LoadableMixin /\ ~IsOptimizer(G))
        => (out.err = "" /\ SameGraph(out.val, G))

(* C2: after klass(args, kwargs) through a chain of one, two or three       *)
(* decorated __init__ methods, the instance holds one capture record, the   *)
(* serialized arguments of the call of the leaf class.                      *)
C2_ExactlyOnceCapture ==
    (pc = "build" /\ last.op = "new" /\ last.err = "" /\ last.cls \in UserClasses)
        => /\ Cardinality({i \in 1..Len(G.attrs) : G.attrs[i].key = "_args"}) = 1
           /\ Cardinality({i \in 1..Len(G.attrs) : G.attrs[i].key = "_kwargs"}) = 1
           /\ Ok(getattr(G, "_args", None)) = _nested_serialize(Tuple(last.args))
           /\ Ok(getattr(G, "_kwargs", None)) = _nested_serialize(Dict(last.kwargs))

C2_Witness ==
    /\ pc = "build" /\ last.op = "new" /\ last.err = "" /\ last.cls = NodeC
    /\ Len(last.args) = 2 /\ last.kwargs # <<>>
    /\ G.attrs[1].val.items[1] # last.args[2]

(* C3: a record whose version is not "1.0" is refused with a version error, *)
(* and nothing is built.                                                    *)
C3_VersionGate ==
    (pc = "loaded" /\ edit \in {"version", "nested_version"})
        => (out.err = "VersionError" /\ out.val = None /\ out.log = <<>>)

(* the reconstruction of a live node: what loading its own record gives *)
Rebuilt(child) == load(LoadableMixin, serialize(child)).val

ContainerOps == {"append", "insert", "extend", "setitem"}

(* C4: append, insert, extend and __setitem__ raise TypeError and leave the *)
(* container as it was when a child they are given is no LoadableMixin      *)
(* instance; every child of a container is a LoadableMixin instance.        *)
C4_ConformanceRejection ==
    /\ (pc = "build" /\ last.op \in ContainerOps
          /\ \E i \in 1..Len(last.args) : ~isinstance(last.args[i], LoadableMixin))
         => (last.err = "TypeError" /\ G = last.before)
    /\ (pc = "build" /\ IsContainer(G))
         => \A i \in 1..Len(G.mods) : isinstance(G.mods[i].val, LoadableMixin)

C4_Witness ==
    /\ pc = "build" /\ last.op = "extend" /\ last.err = "TypeError"
    /\ last.args = <<ChildA, ChildLinear>>
    /\ isinstance(G, nn_ModuleList) /\ Len(G.mods) = 1

(* C5: loading the record of an ordered container gives a container with   *)
(* as many children, the i-th being the reconstruction of the i-th child.   *)
C5_OrderPreservation ==
    (pc = "loaded" /\ edit = "" /\ IsOrdered(G))
        => /\ out.err = ""
           /\ IsOrdered(out.val)
           /\ Len(out.val.mods) = Len(G.mods)
           /\ \A i \in 1..Len(G.mods) :
                 i <= Len(out.val.mods) =>
                     out.val.mods[i].val = Rebuilt(G.mods[i].val)

C5_Witness ==
    /\ pc = "loaded" /\ edit = "" /\ isinstance(G, nn_ModuleList)
    /\ Len(G.mods) = 3 /\ G.mods[1].val # G.mods[2].val
    /\ G.mods[2].val # G.mods[3].val
    /\ out.err = "" /\ Len(out.val.mods) = 3

(* C6: the record of a keyed container has the one-element args list that  *)
(* maps each key to the record of its child, empty kwargs and no state; it  *)
(* loads as a keyed container with the same keys and the rebuilt children.  *)
C6_KeyedContainerLayout ==
    (pc \in {"saved", "loaded"} /\ edit = "" /\ IsKeyed(G))
        => /\ GetKey(rec.items, "args") =
                  List(<<Dict([i \in 1..Len(G.mods) |->
                                 Item(G.mods[i].key, serialize(G.mods[i].val))])>>)
           /\ Keys(GetKey(rec.items, "args").items[1].items) = Keys(G.mods)
           /\ GetKey(rec.items, "kwargs") = Dict(<<>>)
           /\ ~HasKey(rec.items, "state")
           /\ pc = "loaded" =>
                 /\ out.err = ""
                 /\ IsKeyed(out.val)
                 /\ Keys(out.val.mods) = Keys(G.mods)
                 /\ \A key \in Keys(G.mods) :
                       HasKey(out.val.mods, key) =>
                           GetKey(out.val.mods, key) = Rebuilt(GetKey(G.mods, key))

C6_Witness ==
    /\ pc = "loaded" /\ edit = "" /\ IsKeyed(G)
    /\ Keys(G.mods) = {"x", "y"}
    /\ GetKey(G.mods, "x") # GetKey(G.mods, "y")
    /\ out.err = ""

(* a parameter reference: a tensor, a list of tensors, model.parameters() *)
IsParams(v) ==
    \/ v.k = "tensor"
    \/ /\ v.k \in {"list", "generator"}
       /\ \A i \in 1..Len(v.items) : v.items[i].k = "tensor"

(* C7: the record of an optimizer whose first argument is a parameter       *)
(* reference has an empty list in its place, the other captured arguments   *)
(* unchanged, and the optimizer's state.                                    *)
C7_OptimizerExclusion ==
    (pc = "saved" /\ edit = "" /\ IsOptimizer(G)
       /\ getattr(G, "_args", Tuple(<<>>)).items # <<>>
       /\ IsParams(getattr(G, "_args", Tuple(<<>>)).items[1]))
        => /\ GetKey(rec.items, "args").items =
                  <<List(<<>>)>> \o Tail(getattr(G, "_args", Tuple(<<>>)).items)
           /\ GetKey(rec.items, "kwargs") = getattr(G, "_kwargs", Dict(<<>>))
           /\ GetKey(rec.items, "state") = G.state

(* C8: what was loaded serializes under the module and qualname of the     *)
(* record it was loaded from, and that record loads again.                  *)
C8_EffectiveTypeTag ==
    /\ (pc \in {"loaded", "reloaded"} /\ edit = "" /\ out.err = ""
          /\ hint \in {LoadableMixin, TypeOf(G)})
         => /\ GetKey(serialize(out.val).items, "module") = GetKey(rec.items, "module")
            /\ GetKey(serialize(out.val).items, "qualname")
                  = GetKey(rec.items, "qualname")
    /\ (pc = "reloaded" /\ edit = "") => out2.err = ""

(* the last event of a log *)
LastEv(log) == IF log = <<>> THEN Ev("", None, None) ELSE log[Len(log)]

(* C9: without a hint, a record (the one loaded, or one nested in it) whose *)
(* class cannot be imported makes load raise ImportError with the qualname  *)
(* and the module; nothing is returned, and nothing is done for that record *)
(* after the failed import.                                                 *)
C9_ResolutionError ==
    /\ (pc = "loaded" /\ edit = "bad_qualname" /\ hint = LoadableMixin)
         => /\ out.err = "ImportError" /\ out.val = None
            /\ out.log = <<Ev("ImportError", Str("Missing"),
                               GetKey(rec.items, "module"))>>
    /\ (pc = "loaded" /\ edit = "nested_bad_qualname")
         => /\ out.err = "ImportError" /\ out.val = None
            /\ LastEv(out.log).ev = "ImportError"
            /\ LastEv(out.log).a = Str("Missing")
            /\ \A i \in 1..Len(out.log) : out.log[i].ev \notin {"call", "load_state_dict"}

C9_Witness ==
    /\ pc = "loaded" /\ edit = "nested_bad_qualname" /\ out.err = "ImportError"
    /\ Len(out.log) = 2

(* C10: a record without one of module, qualname, args, kwargs is refused   *)
(* with an error that is no ImportError, before its node is built.          *)
C10_FormatError ==
    (pc = "loaded" /\ edit \in {"drop_module", "drop_qualname", "drop_args", "drop_kwargs"})
        => /\ out.err \notin {"", "ImportError"}
           /\ out.val = None
           /\ LastEv(out.log).ev = "KeyError"

(* the modules of a value that are no LoadableMixin instances, at any depth *)
(* of lists, tuples and dict values                                         *)
RECURSIVE Foreign(_)
Foreign(v) ==
    IF v.k = "object"
    THEN IF isinstance(v, nn_Module) /\ ~isinstance(v, LoadableMixin) THEN {v} ELSE {}
    ELSE IF v.k \in {"list", "tuple"}
    THEN UNION {Foreign(v.items[i]) : i \in 1..Len(v.items)}
    ELSE IF v.k = "dict"
    THEN UNION {Foreign(v.items[i].val) : i \in 1..Len(v.items)}
    ELSE {}

(* the call of a user class that last was made *)
LastNew == Construct(last.cls, last.args, last.kwargs)

(* C11: _nested_serialize of a value that holds, at any depth, a module     *)
(* that is no LoadableMixin instance raises TypeError naming the kind of    *)
(* such a module and returns nothing; a constructor call whose arguments    *)
(* hold one raises it before the wrapped __init__ is called.                *)
C11_SerializerTypeError ==
    (last.op = "new" /\ last.cls \in UserClasses
       /\ Foreign(Tuple(last.args)) \cup Foreign(Dict(last.kwargs)) # {})
        => /\ \A v \in {Tuple(last.args), Dict(last.kwargs)} :
                 Foreign(v) # {} =>
                     /\ _nested_serialize(v).err = "TypeError"
                     /\ _nested_serialize(v).val = None
                     /\ Len(_nested_serialize(v).log) = 1
                     /\ \E m \in Foreign(v) :
                           _nested_serialize(v).log[1]
                               = Ev("TypeError", Str(TypeOf(m).name), None)
           /\ pc = "failed" /\ last.err = "TypeError" /\ G = None
           /\ \A i \in 1..Len(LastNew.log) : LastNew.log[i].ev # "init"

C11_Witness ==
    /\ pc = "failed" /\ last.op = "new" /\ last.cls = NodeB
    /\ last.args = <<Prim(1)>>
    /\ last.kwargs = <<Item("k", Dict(<<Item("d", Tuple(<<ChildLinear>>))>>))>>
    /\ last.err = "TypeError"

(* C12: save warns exactly when the node has no capture record and its      *)
(* __init__ takes an argument besides self, and stores the record of the    *)
(* node in every case.                                                      *)
C12_SaveWarning ==
    (pc = "stored")
        => /\ (warns # <<>>) <=>
                  (~hasattr(G, "_args")
                     /\ NumParams(InitDefiner(Mro(TypeOf(G))).init) > 0)
           /\ rec = serialize(G)

(* the (qualname, module) tags of the records of a value, a record before   *)
(* the records in its args, those before the records in its kwargs          *)
RECURSIVE RecordTags(_)
RECURSIVE Flatten(_)
Flatten(ss) == IF ss = <<>> THEN <<>> ELSE Head(ss) \o Flatten(Tail(ss))
RecordTags(v) ==
    IF v.k = "dict"
    THEN (IF IsRecord(v)
          THEN <<Ev("import", DictGet(v.items, "qualname", None),
                    DictGet(v.items, "module", None))>>
          ELSE <<>>)
         \o Flatten([i \in 1..Len(v.items) |->
                       IF IsRecord(v) /\ v.items[i].key \notin {"args", "kwargs"}
                       THEN <<>> ELSE RecordTags(v.items[i].val)])
    ELSE IF v.k \in {"list", "tuple"}
    THEN Flatten([i \in 1..Len(v.items) |-> RecordTags(v.items[i])])
    ELSE <<>>

(* the imports of a log, in their order *)
Imports(log) == SelectSeq(log, LAMBDA e : e.ev = "import")

(* C13: a load on a class other than LoadableMixin builds the node from     *)
(* that class and imports nothing for the record itself; a load on          *)
(* LoadableMixin, or load_module, imports the class the record names and    *)
(* builds the node from it; the records nested in args and kwargs are       *)
(* imported under their own names in both cases.                            *)
C13_TypeHint ==
    (pc = "loaded" /\ out.err = "")
        => IF hint = LoadableMixin
           THEN /\ Imports(out.log) = RecordTags(rec)
                /\ Ok(TagClass(TypeOf(out.val)))
                      = import_qualname(GetKey(rec.items, "module"),
                                        GetKey(rec.items, "qualname"))
           ELSE /\ Imports(out.log) = Tail(RecordTags(rec))
                /\ TagClass(TypeOf(out.val)) = hint

C13_Witness ==
    /\ pc = "loaded" /\ out.err = "" /\ edit = ""
    /\ hint = NodeC /\ TypeOf(G) = NodeB
    /\ GetKey(rec.items, "qualname") = Str("NodeB")
    /\ Len(RecordTags(rec)) = 2
    /\ TagClass(TypeOf(out.val)) = NodeC

(* the class a load of rec resolves for the record itself *)
ResolvedClass ==
    ResolveClass(rec.items, IF hint = LoadableMixin THEN None ELSE hint).val

(* C14: a resolved or hinted class that is a LoadableMixin subclass is      *)
(* instantiated as it is, so the node load returns is of exactly that class. *)
C14_WrapOnlyWhenNeeded ==
    (pc = "loaded" /\ out.err = "" /\ issubclass(ResolvedClass, LoadableMixin))
        => TypeOf(out.val) = ResolvedClass

(* the capture record of the node, read through its references *)
Capture ==
    IF node = 0 THEN <<None, None>>
    ELSE <<Deep(heap, DictGet(heap[node].attrs, "_args", None)),
           Deep(heap, DictGet(heap[node].attrs, "_kwargs", None))>>

(* the record a call of serialize on the node would now return *)
NextRecord ==
    IF node = 0 THEN HDict(<<>>)
    ELSE Deep(heap_serialize(heap, Ref(node)).h, heap_serialize(heap, Ref(node)).v)

C16_SnapshotStructuralCopy ==
    [][hop' = "mutate"
          => /\ Capture' = Capture
             /\ DictGet(NextRecord.items, "args", None)'
                   = DictGet(NextRecord.items, "args", None)
             /\ DictGet(NextRecord.items, "kwargs", None)'
                   = DictGet(NextRecord.items, "kwargs", None)]_vars

(* C17: a change made to a record serialize returned changes neither the    *)
(* capture record of the node nor the record a later serialize returns.     *)
C17_FreshRecord ==
    [][hop' = "edit" => (Capture' = Capture /\ NextRecord' = NextRecord)]_vars

Returned(fn) == call # None /\ call.fn = fn /\ ret # Pending

(* the elements that ensure_list added to those of x *)
PaddingOf(x, r) == {r[i] : i \in (Len(AsList(x)) + 1)..Len(r)}

(* C18: for a given length n >= 0, the list that ensure_list returns has at *)
(* least n elements, at most n when crop is True, and every element added   *)
(* by padding is the default keyword, or else the last element of x, or     *)
(* None when x is empty; ensure_tuple returns the same elements.            *)
C18_EnsureListLength ==
    ((Returned("ensure_list") \/ Returned("ensure_tuple")) /\ call.length # None)
        => /\ Len(ret.val.items) >= call.length.v
           /\ call.crop => Len(ret.val.items) <= call.length.v
           /\ PaddingOf(call.x, ret.val.items)
                 \subseteq {DictGet(call.kwargs, "default",
                                    IF AsList(call.x) # <<>>
                                    THEN AsList(call.x)[Len(AsList(call.x))]
                                    ELSE None)}

(* the order of Python on tuples of integers: a < b *)
RECURSIVE TupleLess(_, _)
TupleLess(a, b) ==
    IF b = <<>> THEN FALSE
    ELSE IF a = <<>> THEN TRUE
    ELSE IF Head(a) # Head(b) THEN Head(a) < Head(b)
    ELSE TupleLess(Tail(a), Tail(b))

(* a <mode> b in that order *)
Stands(a, mode, b) ==
    CASE mode \in {"<", "lt"} -> TupleLess(a, b)
      [] mode \in {"<=", "le"} -> ~TupleLess(b, a)
      [] mode \in {">", "gt"} -> TupleLess(b, a)
      [] mode \in {">=", "ge"} -> ~TupleLess(a, b)

(* C19: for each of the eight modes and versions of 1 to 3 integers,        *)
(* _compare_versions(version1, mode, version2) is True exactly when         *)
(* version1 <mode> version2 holds in the lexicographic order of tuples, and *)
(* torch_version(mode, version) is True exactly when the installed version  *)
(* stands in that relation to version.                                      *)
C19_VersionOrder ==
    /\ Returned("_compare_versions")
          => ret.val = Prim(Stands(call.version1, call.mode, call.version2))
    /\ Returned("torch_version")
          => ret.val = Prim(Stands(CurrentVersion(call.torch___version__),
                                   call.mode, call.version.items))

(* the numpy scalar kind that to_torch_dtype looks up for the dtype it got *)
Looked == np_dtype_type(call.dtype).val

(* the dtype is in that table and in no other table of to_torch_dtype *)
OnlyIn(table) ==
    /\ call.dtype \notin {None, Str("")}
    /\ call.dtype.k \in {"numpy", "str"}
    /\ ~HasKey(_dtype_str2torch, call.dtype)
    /\ np_dtype_type(call.dtype).err = ""
    /\ HasKey(table, Looked)
    /\ \A other \in {_dtype_np2torch, _dtype_upcast2torch, _dtype_trunc2torch} \ {table} :
          ~HasKey(other, Looked)

(* C20: for a dtype that is only in the truncation table, to_torch_dtype    *)
(* returns the truncated torch dtype when trunc is True and raises          *)
(* TypeError when trunc is False, whatever upcast is; for a dtype that is   *)
(* only in the upcast table it returns the upcast dtype when upcast is True *)
(* and raises TypeError when upcast is False, whatever trunc is.            *)
C20_DtypeFlags ==
    /\ (Returned("to_torch_dtype") /\ OnlyIn(_dtype_trunc2torch))
          => ret = IF call.trunc THEN Ok(GetKey(_dtype_trunc2torch, Looked))
                   ELSE Raise("TypeError", <<>>)
    /\ (Returned("to_torch_dtype") /\ OnlyIn(_dtype_upcast2torch))
          => ret = IF call.upcast THEN Ok(GetKey(_dtype_upcast2torch, Looked))
                   ELSE Raise("TypeError", <<>>)

(* the constructor calls and the state loads of a log, in their order *)
Rebuilds(log) == SelectSeq(log, LAMBDA e : e.ev \in {"call", "load_state_dict"})

(* the name of the class that is called for a tagged record *)
CalledName(state, klass) ==
    IF ResolveClass(state, klass).err # "" THEN Str("")
    ELSE Str(WrapClass(ResolveClass(state, klass).val).qualname)

(* the records of a value, innermost first: those in the args of a record,  *)
(* then those in its kwargs, then the record itself, as the call of its     *)
(* class followed by the load of its state when it has one                  *)
RECURSIVE Innermost(_, _)
Innermost(v, klass) ==
    IF IsRecord(v)
    THEN Innermost(DictGet(v.items, "args", None), None)
         \o Innermost(DictGet(v.items, "kwargs", None), None)
         \o <<Ev("call", CalledName(v.items, klass), None)>>
         \o (IF HasKey(v.items, "state")
             THEN <<Ev("load_state_dict", CalledName(v.items, klass), None)>>
             ELSE <<>>)
    ELSE IF v.k \in {"dict", "list", "tuple"}
    THEN Flatten([i \in 1..Len(v.items) |->
                    Innermost(IF v.k = "dict" THEN v.items[i].val ELSE v.items[i],
                              None)])
    ELSE <<>>

IsPrefix(a, b) == Len(a) <= Len(b) /\ a = SubSeq(b, 1, Len(a))

(* the tagged records of a value: a record, those in its args, those in its *)
(* kwargs                                                                   *)
RECURSIVE Records(_)
Records(v) ==
    IF v.k = "dict"
    THEN (IF IsRecord(v) THEN <<v>> ELSE <<>>)
         \o Flatten([i \in 1..Len(v.items) |->
                       IF IsRecord(v) /\ v.items[i].key \notin {"args", "kwargs"}
                       THEN <<>> ELSE Records(v.items[i].val)])
    ELSE IF v.k \in {"list", "tuple"}
    THEN Flatten([i \in 1..Len(v.items) |-> Records(v.items[i])])
    ELSE <<>>

(* the record names a class whose serialize is that of one of the three     *)
(* loadable containers                                                      *)
OfContainer(r) ==
    /\ import_qualname(GetKey(r.items, "module"), GetKey(r.items, "qualname")).err = ""
    /\ Definer(import_qualname(GetKey(r.items, "module"),
                               GetKey(r.items, "qualname")).val, "serialize")
          \in {LoadableSequential, LoadableModuleList, LoadableModuleDict}

(* C21: in a load, the records nested in the args and kwargs of a record    *)
(* are built, and their state loaded, before the class of the record is     *)
(* called; the state of a record is loaded once, right after its class was  *)
(* called, exactly when the record has a "state" key; the records that the  *)
(* three loadable containers serialize have no "state" key and the records  *)
(* that LoadableMixin.serialize makes have one.                             *)
C21_DeserializationOrder ==
    /\ pc = "loaded"
          => /\ IsPrefix(Rebuilds(out.log),
                         Innermost(rec, IF hint = LoadableMixin THEN None ELSE hint))
             /\ out.err = ""
                   => Rebuilds(out.log)
                        = Innermost(rec, IF hint = LoadableMixin THEN None ELSE hint)
    /\ (pc = "saved" /\ edit = "")
          => /\ HasKey(rec.items, "state")
                   <=> Definer(TypeOf(G), "serialize")
                         \notin {LoadableSequential, LoadableModuleList,
                                  LoadableModuleDict}
             /\ \A i \in 1..Len(Records(rec)) :
                   HasKey(Records(rec)[i].items, "state") <=> ~OfContainer(Records(rec)[i])

C21_Witness ==
    /\ pc = "loaded" /\ out.err = "" /\ edit = ""
    /\ Len(Records(rec)) >= 3
    /\ ~HasKey(rec.items, "state")
    /\ \E i \in 2..Len(Records(rec)) : HasKey(Records(rec)[i].items, "state")
    /\ Len(Rebuilds(out.log)) > Len(Records(rec))
    /\ Rebuilds(out.log)[Len(Rebuilds(out.log))].ev = "call"

(* the least of a float and the losses of the first n calls of eval_epoch *)
RECURSIVE LeastOf(_, _)
LeastOf(best, n) ==
    IF n = 0 THEN best
    ELSE IF Less(calls[n].loss, LeastOf(best, n - 1)) THEN calls[n].loss
    ELSE LeastOf(best, n - 1)

(* the checkpoints of one kind among those a call saved *)
SavedAs(c, kind) == SelectSeq(c.saved, LAMBDA f : f.name[1] = kind)

(* C22: over the calls of eval_epoch, best_eval_loss never increases and is *)
(* after each call the least of what it was at first and the evaluation     *)
(* losses of the epochs so far; a call saves a 'best' checkpoint exactly    *)
(* when its loss is strictly below the best loss before it, and that        *)
(* checkpoint holds the updated best loss; every call saves a 'last'        *)
(* checkpoint.                                                              *)
C22_BestCheckpoint ==
    trainer # None
        => /\ trainer.training_state.best_eval_loss = LeastOf(inf, Len(calls))
           /\ \A i \in 1..Len(calls) :
                 /\ calls[i].before = LeastOf(inf, i - 1)
                 /\ ~Less(calls[i].before, LeastOf(inf, i))
                 /\ Len(SavedAs(calls[i], "best"))
                       = (IF Less(calls[i].loss, calls[i].before) THEN 1 ELSE 0)
                 /\ \A j \in 1..Len(SavedAs(calls[i], "best")) :
                       SavedAs(calls[i], "best")[j].training_state.best_eval_loss
                         = calls[i].loss
                 /\ Len(SavedAs(calls[i], "last")) = 1
                 /\ calls[i].saved[Len(calls[i].saved)].name[1] = "last"

C22_Witness ==
    /\ trainer # None /\ at = "done" /\ Len(calls) = 3
    /\ Less(calls[2].loss, calls[1].loss)
    /\ ~Less(calls[3].loss, calls[2].loss)
    /\ Len(calls[2].saved) = 2 /\ Len(calls[3].saved) = 1
    /\ trainer.training_state.best_eval_loss = calls[2].loss

(* C24: when x is a list, the caller's list holds after ensure_list(x,      *)
(* length, crop, default=...) the elements it held before the call, for     *)
(* every length, crop and default.                                          *)
C24_ListInputUntouched ==
    ((Returned("ensure_list") \/ Returned("ensure_tuple")) /\ call.x.k = "list")
        => arg = call.x

(* C23: a load of an in-memory state leaves that state, at every nesting    *)
(* level, equal to what it was before the call, so that the state can be    *)
(* loaded once more and gives an equally configured object.                 *)
C23_LoadLeavesInput ==
    [][Len(loaded') > Len(loaded)
         => /\ given' = given
            /\ loaded'[Len(loaded')].err = ""
            /\ Len(loaded) >= 1 => loaded'[Len(loaded')] = loaded[Len(loaded)]]_vars


====
